---- MODULE Spec2Model ----
(***************************************************************************)
(* RegIntellect: event ingestion and alert scoring.                        *)
(*                                                                         *)
(*   SpecScore  - server/lib/score.ts: scoreEvent, categorizeByScore,      *)
(*                shouldSummarize, applied to bounded inputs.              *)
(*   SpecRetry  - server/routes.ts: withRetry, one run of the wrapper.     *)
(*   SpecDedup  - the ingestion router (device and drug recall handlers)   *)
(*                with its module-level signature window.                  *)
(*   SpecGate   - the device recall handler and the daily AI usage quota,  *)
(*                across calendar days.                                    *)
(*   SpecApi    - server/routes.ts: the /api/recalls pipeline with the     *)
(*                status table of MemStorage.                              *)
(*   SpecDryRun - the router's device, cpt/pfs, maude and deadlines        *)
(*                handlers in dry-run and committed mode.                  *)
(*   SpecConc   - two device recall requests interleaved at their awaits.  *)
(*   SpecStatus - server/routes.ts: the /api/recalls pipeline between its   *)
(*                awaits, its failures, and the /api/status report.        *)
(*   SpecAdjust - server/routes.ts: the /api/fedreg and /api/maude         *)
(*                pipelines with their score adjustments.                  *)
(*   SpecSms    - server/routes.ts: POST /api/send-sms over stored events. *)
(*   SpecBatch  - server/lib/ai-perplexity.ts: one call of batchSummarize. *)
(*   SpecTable  - MemStorage.updateSystemStatus under pipeline requests    *)
(*                that run in parallel.                                    *)
(*   SpecSummary - the device recall handler and /api/recalls, each        *)
(*                storing events with or without a summary.                *)
(*   SpecPfs    - the payment-schedule handlers /cpt/pfs and /api/cms-pfs  *)
(*                with their rate snapshots.                               *)
(***************************************************************************)
EXTENDS Integers, Sequences, FiniteSets, TLC

VARIABLES
    job,        \* SpecScore: the call being made (function name and argument)
    out,        \* SpecScore: what the call returned, NoOut before it ran
    rArgs,      \* withRetry: the maxRetries argument, <<>> when omitted
    rOp,        \* withRetry: how many leading attempts of fn fail (Always: all)
    rPc,        \* withRetry: "loop", "caught", "returned" or "thrown"
    rI,         \* withRetry: the loop variable i
    rCalls,     \* withRetry: invocations of fn so far
    rWaits,     \* withRetry: the delays slept so far, in ms
    rLastError, \* withRetry: lastError, NoError while unassigned
    rResult,    \* withRetry: the value returned or the error thrown
    now,             \* router: the wall clock, in days
    eventSignatures, \* router: the module-level Map signature -> last seen
    eventsJson,      \* router: the content of events.json
    aiUsage,         \* router: the daily AI usage counter and the day it counts
    response,        \* router: the last response sent, with the request's route and mode
    aiLog,           \* router: the calls to the gate and the summarizer, of the last
                     \* request, or of all the requests in flight
    upstream,        \* router: the payload the upstream served to the last request
    cptRatesPrevious, \* router: the content of cpt_rates_previous.json
    maudeCounts,     \* router: the content of maude_counts.json
    deadlinesJson,   \* router: the content of deadlines.json
    systemStatus,    \* MemStorage: the status entry of each source
    storageEvents,   \* MemStorage: the events created through storage.createEvent
    runs,            \* router: the device-recall requests in flight, each between two awaits
    pipeline,        \* routes.ts: the pipeline request in flight, between two awaits
    smsLog,          \* routes.ts: the calls of sendUrgentSMS
    batch,           \* ai-perplexity.ts: the batchSummarize call in flight
    cmsJson,         \* MemStorage: the lastSnapshot of cms.json
    inFlight         \* routes.ts: the status updates of the pipeline requests in flight

scoreVars == <<job, out>>
retryVars == <<rArgs, rOp, rPc, rI, rCalls, rWaits, rLastError, rResult>>

snapshotVars == <<cptRatesPrevious, maudeCounts, deadlinesJson>>
storageVars == <<systemStatus, storageEvents, pipeline>>
auxVars == <<smsLog, batch, cmsJson, inFlight>>
routerVarsButBatch == <<now, eventSignatures, eventsJson, aiUsage, response, aiLog, upstream,
                        cptRatesPrevious, maudeCounts, deadlinesJson, systemStatus,
                        storageEvents, runs, pipeline, smsLog, cmsJson, inFlight>>

routerVars == <<now, eventSignatures, eventsJson, aiUsage, response, aiLog, upstream,
                cptRatesPrevious, maudeCounts, deadlinesJson, systemStatus, storageEvents,
                runs, pipeline, smsLog, batch, cmsJson, inFlight>>

vars == <<job, out, rArgs, rOp, rPc, rI, rCalls, rWaits, rLastError, rResult,
          now, eventSignatures, eventsJson, aiUsage, response, aiLog, upstream,
          cptRatesPrevious, maudeCounts, deadlinesJson, systemStatus, storageEvents, runs,
          pipeline, smsLog, batch, cmsJson, inFlight>>

------------------------------------------------------------------------------
(* Bounds of the model *)

\* longest `sources` list of a scoring input
MaxSources == 2
\* categorizeByScore is applied to every integer in -NegScores .. MaxCatScore
NegScores == 3
MaxCatScore == 100
\* largest maxRetries passed to withRetry
MaxRetryArg == 5
\* most leading failures of an operation that eventually succeeds
MaxOpFailures == 5
\* most records in one fetched upstream batch
MaxBatch == 2
\* last day of the clock
MaxDay == 30
\* most events kept in events.json
MaxStored == 2
\* the configured daily ceiling of AI summaries
DailyCeiling == 1
\* the last calendar day of the runs that exercise the quota
MaxQuotaDay == 1

------------------------------------------------------------------------------
(* server/lib/score.ts *)

\* an absent string field
Undefined == "undefined"

\* Array.prototype.includes on a sequence
Includes(seq, x) == \E k \in 1..Len(seq) : seq[k] = x

\* An optional object carries `defined`; an undefined or null one has it FALSE.
\* a?.b for an optional object a holding booleans: undefined when a is undefined
Truthy(obj, field) == obj.defined /\ obj[field] = TRUE

Abs(n) == IF n < 0 THEN -n ELSE n

criticalModalities == <<"CT", "MRI", "Nuclear Medicine", "Mammography">>
majorCaliforniaRegions == <<"Bay Area", "Greater LA", "San Diego">>

\* A reason is the sequence of the parts of its (template) string.
\* one `if (cond) { score += points; reasons.push(reason) }` statement
Rule(acc, cond, points, reason) ==
    IF cond THEN [score |-> acc.score + points, reasons |-> Append(acc.reasons, reason)]
            ELSE acc

\* the financial impact test of scoreEvent
SignificantDelta(delta) == delta.defined /\ Abs(delta.new - delta.old) > 50

HasSource_FirstOnly(event, tag) == event.sources # <<>> /\ event.sources[1] = tag

\* the source test of scoreEvent
HasSource(event, tag) == Includes(event.sources, tag)

scoreEvent(event) ==
    LET s0  == [score |-> 0, reasons |-> <<>>]
        s1  == Rule(s0, HasSource(event, "openfda:enforcement"), 60, <<"FDA enforcement action">>)
        s2  == Rule(s1, HasSource(event, "cms:pfs_change"), 70, <<"Official CMS payment change">>)
        s3  == Rule(s2, HasSource(event, "cdph"), 65,
                    <<"California Department of Public Health alert">>)
        s4  == Rule(s3, HasSource(event, "rhb"), 70,
                    <<"California Radiologic Health Branch requirement">>)
        s5  == Rule(s4, Truthy(event.flags, "manufacturer_notice"), 20,
                    <<"Manufacturer notice present">>)
        s6  == Rule(s5, Truthy(event.flags, "maude_signal"), 10, <<"MAUDE signal detected">>)
        s7  == Rule(s6, Truthy(event.flags, "california_mandate"), 25,
                    <<"California state mandate">>)
        s8  == Rule(s7, Truthy(event.flags, "radiation_safety"), 30,
                    <<"Radiation safety requirement">>)
        s9  == Rule(s8, Truthy(event.match, "exact_model"), 20, <<"Exact device model match">>)
        s10 == Rule(s9, Truthy(event.match, "fuzzy_model"), 10, <<"Fuzzy device model match">>)
        s11 == Rule(s10, event.modalityType # Undefined
                         /\ Includes(criticalModalities, event.modalityType), 15,
                    <<"Critical radiology modality: ", event.modalityType>>)
        s12 == Rule(s11, event.californiaRegion # Undefined
                         /\ Includes(majorCaliforniaRegions, event.californiaRegion), 5,
                    <<"Major California market: ", event.californiaRegion>>)
        s13 == Rule(s12, SignificantDelta(event.delta), 15, <<"Significant financial impact">>)
        s14 == Rule(s13, event.radiologyImpact = "High", 10, <<"High radiology impact">>)
    IN  s14

categorizeByScore_Strict(score) ==
    IF score > 85 THEN "Urgent"
    ELSE IF score > 75 THEN "Informational"
    ELSE IF score > 50 THEN "Digest"
    ELSE "Suppressed"

categorizeByScore(score) ==
    IF score >= 85 THEN "Urgent"
    ELSE IF score >= 75 THEN "Informational"
    ELSE IF score >= 50 THEN "Digest"
    ELSE "Suppressed"

shouldSummarize_UrgentOnly(category) == category = "Urgent"

shouldSummarize_NotSuppressed(category) == category # "Suppressed"

shouldSummarize(category) == category = "Urgent" \/ category = "Informational"

------------------------------------------------------------------------------
(* server/routes.ts: withRetry *)

DefaultMaxRetries == 3
BaseDelay == 200
CapDelay == 2000

NoError == 0
\* the operation fails at every attempt
Always == 0 - 1

Min(a, b) == IF a < b THEN a ELSE b

RECURSIVE Pow(_, _)
Pow(b, n) == IF n = 0 THEN 1 ELSE b * Pow(b, n - 1)

\* the maxRetries parameter with its default
maxRetries == IF rArgs = <<>> THEN DefaultMaxRetries ELSE rArgs[1]

BackoffDelay_Uncapped(i) == BaseDelay * Pow(4, i)

\* const delay = Math.min(200 * Math.pow(4, i), 2000)
BackoffDelay(i) == Min(BaseDelay * Pow(4, i), CapDelay)

LoopContinues_OffByOne(i, limit) == i < limit - 1

\* the loop test, i < maxRetries
LoopContinues(i, limit) == i < limit

ShouldWait_AfterEvery(i, limit) == i < limit

\* the test that guards the sleep, i < maxRetries - 1
ShouldWait(i, limit) == i < limit - 1

\* The k-th invocation of fn rejects with the error object k, or resolves to
\* the value k.
OpFails(k) == rOp = Always \/ k <= rOp

RetryIdle ==
    /\ rArgs = <<>> /\ rOp = 0 /\ rPc = "idle" /\ rI = 0 /\ rCalls = 0
    /\ rWaits = <<>> /\ rLastError = NoError /\ rResult = 0

\* try { return await fn() } catch (error) { lastError = error ...
Attempt ==
    /\ rPc = "loop" /\ LoopContinues(rI, maxRetries)
    /\ rCalls' = rCalls + 1
    /\ IF OpFails(rCalls + 1)
       THEN /\ rLastError' = rCalls + 1
            /\ rPc' = "caught"
            /\ UNCHANGED rResult
       ELSE /\ rResult' = rCalls + 1
            /\ rPc' = "returned"
            /\ UNCHANGED rLastError
    /\ UNCHANGED <<rArgs, rOp, rI, rWaits, scoreVars, routerVars>>

\* ... if (i < maxRetries - 1) { await new Promise(r => setTimeout(r, delay)) } }
Backoff ==
    /\ rPc = "caught" /\ ShouldWait(rI, maxRetries)
    /\ rWaits' = Append(rWaits, BackoffDelay(rI))
    /\ rI' = rI + 1
    /\ rPc' = "loop"
    /\ UNCHANGED <<rArgs, rOp, rCalls, rLastError, rResult, scoreVars, routerVars>>

\* the catch block of the last attempt: no sleep, i++
LastCatch ==
    /\ rPc = "caught" /\ ~ShouldWait(rI, maxRetries)
    /\ rI' = rI + 1
    /\ rPc' = "loop"
    /\ UNCHANGED <<rArgs, rOp, rCalls, rWaits, rLastError, rResult, scoreVars, routerVars>>

\* throw lastError!
Exhausted ==
    /\ rPc = "loop" /\ ~LoopContinues(rI, maxRetries)
    /\ rResult' = rLastError
    /\ rPc' = "thrown"
    /\ UNCHANGED <<rArgs, rOp, rI, rCalls, rWaits, rLastError, scoreVars, routerVars>>

RetryArgs == {<<>>} \cup {<<n>> : n \in 0..MaxRetryArg}
OpScripts == {Always} \cup (0..MaxOpFailures)

------------------------------------------------------------------------------
(* SpecScore: the three functions of score.ts applied to bounded inputs *)

SourceTags == {"openfda:enforcement", "cms:pfs_change", "cdph", "rhb", "fedreg"}

RECURSIVE SeqsUpTo(_, _)
SeqsUpTo(S, n) ==
    IF n = 0 THEN {<<>>}
    ELSE LET shorter == SeqsUpTo(S, n - 1)
         IN  shorter \cup {Append(q, x) : q \in {r \in shorter : Len(r) = n - 1}, x \in S}

SourceLists == SeqsUpTo(SourceTags, MaxSources)

UndefinedFlags ==
    [defined |-> FALSE, manufacturer_notice |-> FALSE, maude_signal |-> FALSE,
     california_mandate |-> FALSE, radiation_safety |-> FALSE]
FlagInputs ==
    {UndefinedFlags} \cup [defined : {TRUE}, manufacturer_notice : BOOLEAN,
                           maude_signal : BOOLEAN, california_mandate : BOOLEAN,
                           radiation_safety : BOOLEAN]
UndefinedMatch == [defined |-> FALSE, exact_model |-> FALSE, fuzzy_model |-> FALSE]
MatchInputs ==
    {UndefinedMatch} \cup [defined : {TRUE}, exact_model : BOOLEAN, fuzzy_model : BOOLEAN]
NullDelta == [defined |-> FALSE, old |-> 0, new |-> 0]
DeltaInputs ==
    {NullDelta, [defined |-> TRUE, old |-> 100, new |-> 150],
     [defined |-> TRUE, old |-> 100, new |-> 151], [defined |-> TRUE, old |-> 160, new |-> 100]}
ModalityInputs == {Undefined, "MRI", "Ultrasound"}
RegionInputs == {Undefined, "Greater LA", "Sacramento"}
ImpactInputs == {Undefined, "High"}

ScoringInputs ==
    [sources : SourceLists, flags : FlagInputs, match : MatchInputs, delta : DeltaInputs,
     modalityType : ModalityInputs, californiaRegion : RegionInputs,
     radiologyImpact : ImpactInputs]

CategoryInputs == {"Urgent", "Informational", "Digest", "Suppressed", "urgent", ""}

NoEvent == [sources |-> <<>>, flags |-> UndefinedFlags, match |-> UndefinedMatch,
            delta |-> NullDelta,
            modalityType |-> Undefined, californiaRegion |-> Undefined,
            radiologyImpact |-> Undefined]
NoOut == [done |-> FALSE, score |-> 0, reasons |-> <<>>, category |-> "", summarize |-> FALSE]

ScoreJobs == [fn : {"scoreEvent"}, event : ScoringInputs, score : {0}, category : {""}]
CategorizeJobs ==
    [fn : {"categorizeByScore"}, event : {NoEvent}, score : (0 - NegScores)..MaxCatScore,
     category : {""}]
SummarizeJobs ==
    [fn : {"shouldSummarize"}, event : {NoEvent}, score : {0}, category : CategoryInputs]

\* score, then categorize, then decide on the summary, as every pipeline does
ScoreCall ==
    /\ job.fn = "scoreEvent" /\ ~out.done
    /\ LET r == scoreEvent(job.event)
           category == categorizeByScore(r.score)
       IN  out' = [done |-> TRUE, score |-> r.score, reasons |-> r.reasons,
                   category |-> category, summarize |-> shouldSummarize(category)]
    /\ UNCHANGED <<job, retryVars, routerVars>>

CategorizeCall ==
    /\ job.fn = "categorizeByScore" /\ ~out.done
    /\ LET category == categorizeByScore(job.score)
       IN  out' = [done |-> TRUE, score |-> job.score, reasons |-> <<>>,
                   category |-> category, summarize |-> shouldSummarize(category)]
    /\ UNCHANGED <<job, retryVars, routerVars>>

SummarizeCall ==
    /\ job.fn = "shouldSummarize" /\ ~out.done
    /\ out' = [done |-> TRUE, score |-> 0, reasons |-> <<>>,
               category |-> job.category, summarize |-> shouldSummarize(job.category)]
    /\ UNCHANGED <<job, retryVars, routerVars>>

------------------------------------------------------------------------------
(* The ingestion router: /recalls/device and /recalls/drug *)

WindowDays == 14
RetentionLimit == 5000
ResponseLimit == 5

\* Text is a sequence of characters; an absent field is UndefinedText.
UndefinedText == <<"undefined">>

\* field || ''
OrEmpty(text) == IF text = UndefinedText THEN <<>> ELSE text

Lower(c) == CASE c = "A" -> "a" [] c = "B" -> "b" [] OTHER -> c

RECURSIVE TrimLeft(_)
TrimLeft(text) ==
    IF text # <<>> /\ Head(text) = " " THEN TrimLeft(Tail(text)) ELSE text

RECURSIVE TrimRight(_)
TrimRight(text) ==
    IF text # <<>> /\ text[Len(text)] = " "
    THEN TrimRight(SubSeq(text, 1, Len(text) - 1)) ELSE text

\* case and whitespace normalisation of one identity field
NormalizeField(text) ==
    LET trimmed == TrimRight(TrimLeft(text))
    IN  [k \in 1..Len(trimmed) |-> Lower(trimmed[k])]

CharCode(c) == CASE c = " " -> 1 [] c = "a" -> 2 [] c = "b" -> 3 [] c = "|" -> 4 [] OTHER -> 5

HashMod == 251

RECURSIVE HashText(_, _)
HashText(text, k) ==
    IF k = 0 THEN 7 ELSE (HashText(text, k - 1) * 31 + CharCode(text[k])) % HashMod

\* the short hash of the four normalised identity fields
generateEventSignature(firm, description, class, reason) ==
    LET joined == NormalizeField(firm) \o <<"|">> \o NormalizeField(description) \o <<"|">>
                  \o NormalizeField(class) \o <<"|">> \o NormalizeField(reason)
    IN  HashText(joined, Len(joined))

Range(seq) == {seq[k] : k \in DOMAIN seq}

\* Map.prototype.has / get / set
MapHas(map, key) == key \in DOMAIN map
MapSet(map, key, value) ==
    [k \in DOMAIN map \cup {key} |-> IF k = key THEN value ELSE map[k]]
EmptyMap == [k \in {} |-> 0]

\* present in the window and seen at most 14 days ago; the window is not touched
isDuplicate(signature, window, today) ==
    MapHas(window, signature) /\ today - window[signature] <= WindowDays

\* the count of the current day: a count of an earlier day reads as 0
UsageToday(usage, today) == IF usage.day = today THEN usage.count ELSE 0

canMakeAISummary(usage, today) == UsageToday(usage, today) < DailyCeiling

\* the counter after incrementPerplexityUsage, which returns canMakeAISummary
incrementPerplexityUsage(usage, today) ==
    IF canMakeAISummary(usage, today)
    THEN [count |-> UsageToday(usage, today) + 1, day |-> today]
    ELSE usage

\* the category lib/scoring gives a recall: the table score of a direct
\* enforcement action, with the device match when there is one
RecallCategory(exactMatch) ==
    categorizeByScore(
        scoreEvent([NoEvent EXCEPT !.sources = <<"openfda:enforcement">>,
                                   !.match = [defined |-> TRUE, exact_model |-> exactMatch,
                                              fuzzy_model |-> FALSE]]).score)

NoSummary == "null"
NoSignature == 0 - 1

\* summarizeEvent resolves to a text: the AI's, or the title as fallback
SummaryText == "summary"

\* Array.prototype.slice(-n) and slice(0, n)
KeepLast(seq, n) == IF Len(seq) <= n THEN seq ELSE SubSeq(seq, Len(seq) - n + 1, Len(seq))
KeepFirst(seq, n) == IF Len(seq) <= n THEN seq ELSE SubSeq(seq, 1, n)

\* Upstream records.  Recall 2 republishes the fact of recall 1 under another
\* number, with other case and spacing; recall 3 is another fact with no reason.
Recall1 == [number |-> 1, firm |-> <<"A", "b">>, description |-> <<"a">>,
            class |-> <<"B">>, reason |-> <<"b", "a">>, deviceMatch |-> TRUE]
Recall2 == [number |-> 2, firm |-> <<" ", "a", "B">>, description |-> <<"A">>,
            class |-> <<"b", " ">>, reason |-> <<"B", "a">>, deviceMatch |-> TRUE]
Recall3 == [number |-> 3, firm |-> <<"b">>, description |-> <<"a">>,
            class |-> <<"B">>, reason |-> UndefinedText, deviceMatch |-> FALSE]
RecallPool == {Recall1, Recall2, Recall3}

\* Two more facts about matched devices, for the runs that exhaust the quota.
Recall4 == [number |-> 4, firm |-> <<"a">>, description |-> <<"b", "b">>,
            class |-> <<"A">>, reason |-> <<"a">>, deviceMatch |-> TRUE]
Recall5 == [number |-> 5, firm |-> <<"b", "a">>, description |-> <<"b">>,
            class |-> <<"A">>, reason |-> <<"b">>, deviceMatch |-> TRUE]
QuotaPool == {Recall1, Recall3, Recall4, Recall5}

\* an upstream response lists a recall number once
Batches == {b \in SeqsUpTo(RecallPool, MaxBatch) :
              \A i, j \in 1..Len(b) : i # j => b[i].number # b[j].number}
QuotaBatches == {b \in SeqsUpTo(QuotaPool, MaxBatch) :
                   \A i, j \in 1..Len(b) : i # j => b[i].number # b[j].number}

\* the signature the handlers compute for a raw record
RecallSignature(recall) ==
    generateEventSignature(OrEmpty(recall.firm), OrEmpty(recall.description),
                           OrEmpty(recall.class), OrEmpty(recall.reason))

\* RecallSignature and RecallCategory, evaluated once per input
SignatureOf == [recall \in RecallPool \cup QuotaPool |-> RecallSignature(recall)]
CategoryOf == [exactMatch \in BOOLEAN |-> RecallCategory(exactMatch)]

OnDuplicate_Refresh(window, signature, today) == MapSet(window, signature, today)

OnDuplicate_Remove(window, signature, today) ==
    [k \in DOMAIN window \ {signature} |-> window[k]]

\* `if (isDuplicate(...)) continue;`: the window after a duplicate was skipped
OnDuplicate(window, signature, today) == window

TrackSignature_Never(window, signature, dryRun, today) == window

TrackSignature_Always(window, signature, dryRun, today) == MapSet(window, signature, today)

\* `if (!dryRun) eventSignatures.set(signature, new Date())`
TrackSignature(window, signature, dryRun, today) ==
    IF dryRun THEN window ELSE MapSet(window, signature, today)

CallsGate_InDryRun(category, dryRun) == shouldSummarize(category)

\* `shouldSummarize(normalized.category) && !dryRun && ...`: whether the
\* condition gets as far as asking the gate
CallsGate(category, dryRun) == shouldSummarize(category) /\ ~dryRun

TryConsume_Unchecked(usage, today) ==
    [asked |-> TRUE, granted |-> TRUE,
     usage |-> [count |-> UsageToday(usage, today) + 1, day |-> today]]

TryConsume_GrantNoCount(usage, today) ==
    [asked |-> TRUE, granted |-> canMakeAISummary(usage, today), usage |-> usage]

TryConsume_NoRollover(usage, today) ==
    [asked |-> TRUE, granted |-> usage.count < DailyCeiling,
     usage |-> IF usage.count < DailyCeiling
               THEN [count |-> usage.count + 1, day |-> today] ELSE usage]

\* `canMakeAISummary()` and then `if (incrementPerplexityUsage())`, with no
\* await in between: whether the summary was granted, and the counter after
TryConsume(usage, today) ==
    [asked |-> TRUE, granted |-> canMakeAISummary(usage, today),
     usage |-> IF canMakeAISummary(usage, today)
               THEN incrementPerplexityUsage(usage, today) ELSE usage]

\* the gate was not asked
NotAsked(usage) == [asked |-> FALSE, granted |-> FALSE, usage |-> usage]

\* what a request did with the gate and the summarizer for one event
GateCall(id, before, granted) ==
    [op |-> "tryConsume", id |-> id, before |-> before, granted |-> granted]
SummarizerCall(id) == [op |-> "summarizeEvent", id |-> id, before |-> 0, granted |-> FALSE]

LogOf(id, before, gate) ==
    IF ~gate.asked THEN <<>>
    ELSE <<GateCall(id, before, gate.granted)>>
         \o (IF gate.granted THEN <<SummarizerCall(id)>> ELSE <<>>)

DeviceEvent_DowngradeWhenDenied(id, signature, category, gate, today) ==
    [id |-> id, source |-> "FDA Device Recall", signature |-> signature, seenAt |-> today,
     category |-> IF gate.asked /\ ~gate.granted THEN "Digest" ELSE category,
     summary |-> IF gate.granted THEN SummaryText ELSE NoSummary]

\* `normalized`: built with summary null, the summary set when the gate granted it
DeviceEvent(id, signature, category, gate, today) ==
    [id |-> id,
     source |-> "FDA Device Recall",
     signature |-> signature,
     seenAt |-> today,
     category |-> category,
     summary |-> IF gate.granted THEN SummaryText ELSE NoSummary]

\* One iteration of the device loop on the loop state
\* [events, window, usage, log].  seenAt is the time of the push: the code does
\* not store it, the model keeps it as history.
DeviceLoopBody(st, recall, dryRun, today) ==
    LET signature == SignatureOf[recall]
        category == CategoryOf[recall.deviceMatch]
        id == <<"fda-device-", recall.number>>
        gate == IF CallsGate(category, dryRun) THEN TryConsume(st.usage, today)
                ELSE NotAsked(st.usage)
        normalized == DeviceEvent(id, signature, category, gate, today)
    IN  IF isDuplicate(signature, st.window, today)
        THEN [st EXCEPT !.window = OnDuplicate(@, signature, today)]
        ELSE [events |-> Append(st.events, normalized),
              window |-> TrackSignature(st.window, signature, dryRun, today),
              usage |-> gate.usage,
              log |-> st.log \o LogOf(id, UsageToday(st.usage, today), gate)]

RECURSIVE DeviceLoop(_, _, _, _, _)
DeviceLoop(st, results, k, dryRun, today) ==
    IF k > Len(results) THEN st
    ELSE DeviceLoop(DeviceLoopBody(st, results[k], dryRun, today),
                    results, k + 1, dryRun, today)

BatchSignatures(results) == {SignatureOf[results[k]] : k \in DOMAIN results}

SaveEvents_IgnoreDryRun(existing, events, dryRun) ==
    IF Len(events) > 0 THEN KeepLast(existing \o events, RetentionLimit) ELSE existing

\* `[...existingEvents, ...events].slice(-5000)` written to events.json
SaveEvents(existing, events, dryRun) ==
    IF ~dryRun /\ Len(events) > 0 THEN KeepLast(existing \o events, RetentionLimit)
    ELSE existing

\* res.json({count, events: dryRun ? events : events.slice(0, 5)}), or the 500
\* fetched, the signatures of the upstream records read, is kept with it as
\* history
Reply(route, dryRun, fetched, status, events) ==
    [route |-> route, dryRun |-> dryRun, fetched |-> fetched, status |-> status,
     count |-> Len(events),
     events |-> IF dryRun THEN events ELSE KeepFirst(events, ResponseLimit)]

\* GET /recalls/device
DeviceRecalls(results, dryRun, fetchOk) ==
    IF ~fetchOk
    THEN /\ results = <<>>
         /\ response' = Reply("/recalls/device", dryRun, {}, 500, <<>>)
         /\ aiLog' = <<>>
         /\ UNCHANGED <<now, eventSignatures, eventsJson, aiUsage>>
    ELSE LET st == DeviceLoop([events |-> <<>>, window |-> eventSignatures,
                               usage |-> aiUsage, log |-> <<>>], results, 1, dryRun, now)
         IN  /\ eventSignatures' = st.window
             /\ aiLog' = st.log
             /\ aiUsage' = st.usage
             /\ eventsJson' = SaveEvents(eventsJson, st.events, dryRun)
             /\ Len(eventsJson') <= MaxStored
             /\ response' = Reply("/recalls/device", dryRun, BatchSignatures(results), 200,
                                  st.events)
             /\ UNCHANGED now

\* One iteration of the FDA loop of the drug handler on [events, window, usage]
DrugLoopBody(st, recall, dryRun, today) ==
    LET signature == SignatureOf[recall]
        normalized == [id |-> <<"fda-drug-", recall.number>>,
                       source |-> "FDA Drug Recall",
                       signature |-> signature,
                       seenAt |-> today,
                       category |-> CategoryOf[FALSE],
                       summary |-> NoSummary]
    IN  IF isDuplicate(signature, st.window, today)
        THEN [st EXCEPT !.window = OnDuplicate(@, signature, today)]
        ELSE [st EXCEPT !.events = Append(@, normalized),
                        !.window = TrackSignature(@, signature, dryRun, today)]

RECURSIVE DrugLoop(_, _, _, _, _)
DrugLoop(st, results, k, dryRun, today) ==
    IF k > Len(results) THEN st
    ELSE DrugLoop(DrugLoopBody(st, results[k], dryRun, today), results, k + 1, dryRun, today)

\* the hard-coded ASHP shortage list, pushed on every run
AshpShortageEvent(today) ==
    [id |-> <<"ashp-shortage-gadolinium-based-contrast-agents", 0>>,
     source |-> "ASHP Drug Shortage",
     signature |-> NoSignature,
     seenAt |-> today,
     category |-> "Informational",
     score |-> 50,
     summary |-> NoSummary]

\* GET /recalls/drug
DrugRecalls(results, dryRun, fdaOk) ==
    /\ fdaOk \/ results = <<>>
    /\ LET st0 == [events |-> <<>>, window |-> eventSignatures, usage |-> aiUsage,
                   log |-> <<>>]
           st == IF fdaOk THEN DrugLoop(st0, results, 1, dryRun, now) ELSE st0
           events == Append(st.events, AshpShortageEvent(now))
       IN  /\ eventSignatures' = st.window
           /\ eventsJson' = SaveEvents(eventsJson, events, dryRun)
           /\ Len(eventsJson') <= MaxStored
           /\ response' = Reply("/recalls/drug", dryRun, BatchSignatures(results), 200, events)
    /\ aiLog' = <<>>
    /\ UNCHANGED <<now, aiUsage>>

------------------------------------------------------------------------------
(* The ingestion router: /cpt/pfs, /maude and /deadlines *)

\* currentRates, in cents; Object.entries lists integer-like keys in ascending
\* order
CptCodes == <<70450, 70460, 70551, 71045, 77065>>
currentRates ==
    [code \in Range(CptCodes) |->
        CASE code = 70450 -> 16532
          [] code = 70460 -> 19845
          [] code = 77065 -> 14678
          [] code = 70551 -> 52312
          [] code = 71045 -> 8945]

\* `let category = 'Digest'; if (absDelta >= 10) ... else if (absDelta >= 5) ...`
\* for deltaPercent = (current - previous) / previous * 100
CptCategory(previous, current) ==
    LET absChange == Abs(current - previous)
    IN  IF absChange * 100 >= 10 * previous THEN "Urgent"
        ELSE IF absChange * 100 >= 5 * previous THEN "Informational"
        ELSE "Digest"

\* One iteration of the loop over the current rates
CptLoopBody(events, previousRates, code, today) ==
    IF code \in DOMAIN previousRates /\ previousRates[code] # currentRates[code]
    THEN Append(events, [id |-> <<"cms-pfs-", code, today>>,
                         source |-> "CMS Physician Fee Schedule",
                         signature |-> NoSignature,
                         seenAt |-> today,
                         category |-> CptCategory(previousRates[code], currentRates[code]),
                         summary |-> NoSummary])
    ELSE events

RECURSIVE CptLoop(_, _, _, _)
CptLoop(events, previousRates, k, today) ==
    IF k > Len(CptCodes) THEN events
    ELSE CptLoop(CptLoopBody(events, previousRates, CptCodes[k], today),
                 previousRates, k + 1, today)

SaveSnapshot_Always(stored, value, dryRun) == value

\* `if (!dryRun) await writeJSON(file, value)`
SaveSnapshot(stored, value, dryRun) == IF dryRun THEN stored ELSE value

\* GET /cpt/pfs
CptPfs(dryRun) ==
    LET events == CptLoop(<<>>, cptRatesPrevious, 1, now)
    IN  /\ cptRatesPrevious' = SaveSnapshot(cptRatesPrevious, currentRates, dryRun)
        /\ eventsJson' = SaveEvents(eventsJson, events, dryRun)
        /\ Len(eventsJson') <= MaxStored
        /\ response' = Reply("/cpt/pfs", dryRun, {}, 200, events)
        /\ aiLog' = <<>>
        /\ UNCHANGED <<now, eventSignatures, aiUsage, maudeCounts, deadlinesJson>>

\* the count rows the MAUDE API serves; a feed may hold a term several times
MaudeRow1 == [term |-> "x-ray", count |-> 1]
MaudeRow2 == [term |-> "computed tomography", count |-> 2]
MaudeFeeds == {<<>>, <<MaudeRow1>>, <<MaudeRow2, MaudeRow1, MaudeRow2>>}

\* `counts[deviceName] = (counts[deviceName] || 0) + result.count`
RECURSIVE MaudeLoop(_, _, _)
MaudeLoop(counts, results, k) ==
    IF k > Len(results) THEN counts
    ELSE LET term == results[k].term
             before == IF MapHas(counts, term) THEN counts[term] ELSE 0
         IN  MaudeLoop(MapSet(counts, term, before + results[k].count), results, k + 1)

\* GET /maude
Maude(results, dryRun, fetchOk) ==
    /\ IF ~fetchOk
       THEN /\ results = <<>>
            /\ response' = Reply("/maude", dryRun, {}, 500, <<>>)
            /\ UNCHANGED maudeCounts
       ELSE LET counts == MaudeLoop(EmptyMap, results, 1)
            IN  /\ maudeCounts' = SaveSnapshot(maudeCounts, MapSet(maudeCounts, now, counts),
                                                dryRun)
                /\ response' = [route |-> "/maude", dryRun |-> dryRun, fetched |-> {},
                                status |-> 200, count |-> Cardinality(DOMAIN counts),
                                events |-> <<>>, supportSignals |-> counts]
    /\ aiLog' = <<>>
    /\ UNCHANGED <<now, eventSignatures, eventsJson, aiUsage, cptRatesPrevious, deadlinesJson>>

\* the hard-coded deadlines; the clock's day 0 is 2025-02-26, so 2025-02-28 is
\* day 2 and 2025-03-15 is day 17
DeadlineList ==
    << [id |-> "cms-2025-pfs-comment", source |-> "Federal Register", dueDay |-> 17,
        priority |-> "High"],
       [id |-> "mqsa-facility-inspection", source |-> "FDA MQSA", dueDay |-> 2,
        priority |-> "Urgent"] >>

\* the list with days_until computed at the time of the request
DeadlinesAt(today) ==
    [k \in DOMAIN DeadlineList |->
        [id |-> DeadlineList[k].id, source |-> DeadlineList[k].source,
         priority |-> DeadlineList[k].priority,
         days_until |-> DeadlineList[k].dueDay - today]]

\* `if (days_until <= 1) 'Urgent' else if (days_until <= 7) 'Informational'`
DeadlineCategory(daysUntil) ==
    IF daysUntil <= 1 THEN "Urgent"
    ELSE IF daysUntil <= 7 THEN "Informational"
    ELSE "Digest"

DeadlineEvent(deadline, today) ==
    [id |-> <<deadline.id, 0>>,
     source |-> deadline.source,
     signature |-> NoSignature,
     seenAt |-> today,
     category |-> DeadlineCategory(deadline.days_until),
     score |-> IF deadline.priority = "Urgent" THEN 90 ELSE 65,
     summary |-> NoSummary]

\* GET /deadlines
Deadlines(dryRun) ==
    LET deadlines == DeadlinesAt(now)
        events == [k \in DOMAIN deadlines |-> DeadlineEvent(deadlines[k], now)]
    IN  /\ deadlinesJson' = SaveSnapshot(deadlinesJson, deadlines, dryRun)
        /\ eventsJson' = SaveEvents(eventsJson, events, dryRun)
        /\ Len(eventsJson') <= MaxStored
        /\ response' = Reply("/deadlines", dryRun, {}, 200, events)
        /\ aiLog' = <<>>
        /\ UNCHANGED <<now, eventSignatures, aiUsage, cptRatesPrevious, maudeCounts>>

\* what cpt_rates_previous.json may hold when the process starts: nothing, the
\* current rates, or older rates (one code 10% lower; or one code 6% lower,
\* one 1% higher and one code unknown)
PreviousSnapshots ==
    { EmptyMap,
      currentRates,
      [currentRates EXCEPT ![70450] = 15000],
      [code \in Range(CptCodes) \ {71045} |->
          CASE code = 70551 -> 49200 [] code = 77065 -> 14800
            [] OTHER -> currentRates[code]] }

------------------------------------------------------------------------------
(* MemStorage and the /api/recalls pipeline of server/routes.ts *)

NullTime == 0 - 1

\* The status table is the Map's values in insertion order; the id of an entry,
\* a fresh UUID in the code, is its position.

\* the positions `find(s => s.source === source)` looks through
FindStatus(table, source) == {i \in DOMAIN table : table[i].source = source}

\* find returns the first match
FirstStatus(table, source) ==
    CHOOSE i \in FindStatus(table, source) : \A j \in FindStatus(table, source) : i <= j

\* { ...existing, ...status }
MergeStatus(existing, status) ==
    [f \in DOMAIN existing |-> IF f \in DOMAIN status THEN status[f] ELSE existing[f]]

\* the entry `else` creates
NewStatus(table, source, status) ==
    MergeStatus([id |-> Len(table) + 1, source |-> source,
                 lastSuccess |-> NullTime, lastError |-> NullTime,
                 errorCount24h |-> 0, lastDigestSent |-> NullTime], status)

updateSystemStatus_AlwaysInsert(table, source, status) ==
    Append(table, NewStatus(table, source, status))

\* MemStorage.updateSystemStatus: merge into the entry of the source, or create
\* it from the defaults
updateSystemStatus(table, source, status) ==
    IF FindStatus(table, source) # {}
    THEN [table EXCEPT ![FirstStatus(table, source)] = MergeStatus(@, status)]
    ELSE Append(table, NewStatus(table, source, status))

\* an update that sets no field
NoUpdate == [f \in {} |-> NullTime]

\* the entry of a source as the table holds it, or as it would be created
StatusOf(table, source) ==
    LET updated == updateSystemStatus(table, source, NoUpdate)
    IN  updated[FirstStatus(updated, source)]

\* what a request in flight remembers of the state it started from
NoSnapshot == [status |-> StatusOf(<<>>, "none"), events |-> <<>>]

\* no request of routes.ts is in flight
IdlePipeline == [pc |-> "idle", source |-> "none", records |-> <<>>, k |-> 0,
                 processed |-> <<>>, failed |-> {}, before |-> NoSnapshot]

\* a pipeline request that is not in flight, and the update it passed last
IdleRequest == [pc |-> "idle", source |-> "none", passed |-> NoUpdate]

\* no batchSummarize call is in flight
IdleBatch == [pc |-> "idle", events |-> <<>>, k |-> 0, summaries |-> <<>>,
              clock |-> 0, calls |-> <<>>]

\* `find(s => s.source === source)?.errorCount24h || 0 + 1`: + binds tighter
\* than ||, so this is the stored count unless it is 0 or absent, then 1
ErrorCountOnFailure(table, source) ==
    IF FindStatus(table, source) # {}
       /\ table[FirstStatus(table, source)].errorCount24h # 0
    THEN table[FirstStatus(table, source)].errorCount24h
    ELSE 0 + 1

\* what detectPatterns found in a record; its failure gives all-false signals
NoSignals == [manufacturer_notice |-> FALSE, exact_model |-> FALSE]
Enforcement1 == [id |-> 1, signals |-> NoSignals]
Enforcement2 == [id |-> 2, signals |-> [manufacturer_notice |-> TRUE, exact_model |-> FALSE]]
Enforcement3 == [id |-> 3, signals |-> [manufacturer_notice |-> TRUE, exact_model |-> TRUE]]
EnforcementPool == {Enforcement1, Enforcement2, Enforcement3}
EnforcementFeeds == {b \in SeqsUpTo(EnforcementPool, MaxBatch) :
                       \A i, j \in 1..Len(b) : i # j => b[i].id # b[j].id}

\* enhancedEvent: the normalized record with the detected flags and match and
\* sources ['openfda:enforcement']
EnhancedEvent(record) ==
    [NoEvent EXCEPT !.sources = <<"openfda:enforcement">>,
                    !.flags = [defined |-> TRUE,
                               manufacturer_notice |-> record.signals.manufacturer_notice,
                               maude_signal |-> FALSE, california_mandate |-> FALSE,
                               radiation_safety |-> FALSE],
                    !.match = [defined |-> TRUE, exact_model |-> record.signals.exact_model,
                               fuzzy_model |-> FALSE]]

\* the event record of one normalized record: scored, categorized, summarized
\* whenever shouldSummarize says so
EnforcementRecord(record, today) ==
    LET scoring == scoreEvent(EnhancedEvent(record))
        category == categorizeByScore(scoring.score)
    IN  [id |-> <<"openFDA-", record.id>>, source |-> "openFDA",
         signature |-> NoSignature, seenAt |-> today,
         category |-> category, score |-> scoring.score,
         summary |-> IF shouldSummarize(category) THEN SummaryText ELSE NoSummary]

EnforcementRecordOf == [record \in EnforcementPool, today \in 0..MaxDay |->
                           EnforcementRecord(record, today)]

RECURSIVE SummarizerCalls(_, _)
SummarizerCalls(events, k) ==
    IF k = 0 THEN <<>>
    ELSE SummarizerCalls(events, k - 1)
         \o (IF events[k].summary # NoSummary THEN <<SummarizerCall(events[k].id)>> ELSE <<>>)

\* GET /api/recalls.  outcome tells how the awaited collaborators behave:
\* "ok", "fetch" (withRetry exhausted) or "normalize" (normalizeData threw).
ApiRecalls(records, outcome) ==
    LET started == updateSystemStatus(systemStatus, "recalls",
                       [lastSuccess |-> NullTime, lastError |-> NullTime])
        events == [k \in 1..Len(records) |-> EnforcementRecordOf[records[k], now]]
    IN  /\ IF outcome = "ok"
           THEN /\ storageEvents' = storageEvents \o events
                /\ Len(storageEvents') <= MaxStored
                /\ systemStatus' = updateSystemStatus(started, "recalls",
                                        [lastSuccess |-> now])
                /\ aiLog' = SummarizerCalls(events, Len(events))
                /\ response' = [route |-> "/api/recalls", dryRun |-> FALSE, fetched |-> {},
                                status |-> 200, count |-> Len(events), events |-> events]
           ELSE /\ records = <<>>
                /\ systemStatus' = updateSystemStatus(started, "recalls",
                                        [lastError |-> now,
                                         errorCount24h |->
                                             ErrorCountOnFailure(started, "recalls")])
                /\ aiLog' = <<>>
                /\ response' = [route |-> "/api/recalls", dryRun |-> FALSE, fetched |-> {},
                                status |-> 500, count |-> 0, events |-> <<>>]
                /\ UNCHANGED storageEvents
        /\ UNCHANGED <<now, eventSignatures, eventsJson, aiUsage, upstream, snapshotVars,
                       pipeline>>

------------------------------------------------------------------------------
(* The pipelines of server/routes.ts between their awaits: /api/recalls,     *)
(* /api/fedreg and /api/maude, and the status report of /api/status          *)

Max(a, b) == IF a > b THEN a ELSE b

\* a title of n characters
TitleChar(k) == CASE k % 3 = 0 -> "a" [] k % 3 = 1 -> "b" [] OTHER -> "c"
Title(n) == [k \in 1..n |-> TitleChar(k)]

FallbackLimit == 100
Ellipsis == <<".", ".", ".">>
\* what the summarizer answered when its call went through
SummaryContent == <<"o", "k">>
NullSummary == [null |-> TRUE, text |-> <<>>]

\* `${event.title.substring(0, 100)}${event.title.length > 100 ? '...' : ''}`
FallbackSummary(title) ==
    SubSeq(title, 1, Min(Len(title), FallbackLimit))
    \o (IF Len(title) > FallbackLimit THEN Ellipsis ELSE <<>>)

summarizeEvent_Rethrow(title, callOk) ==
    IF callOk THEN [raised |-> FALSE, summary |-> [null |-> FALSE, text |-> SummaryContent]]
    ELSE [raised |-> TRUE, summary |-> NullSummary]

\* summarizeEvent: the answer of the upstream, or the fallback from its catch
summarizeEvent(title, callOk) ==
    [raised |-> FALSE,
     summary |-> [null |-> FALSE,
                  text |-> IF callOk THEN SummaryContent ELSE FallbackSummary(title)]]

\* what detectPatterns answers for a record: the flags object as the keys it
\* holds and the keys that are true, and the match
ManufacturerNotice == "manufacturer_notice"
MaudeSignal == "maude_signal"
FallbackPatterns ==
    [flags |-> [present |-> {MaudeSignal, ManufacturerNotice}, on |-> {}],
     match |-> [exact_model |-> FALSE, fuzzy_model |-> FALSE]]

\* detectPatterns: the answer of the model, or the all-false fallback
detectPatterns(record, callOk) == IF callOk THEN record.patterns ELSE FallbackPatterns

Item1 == [id |-> 1, title |-> Title(3),
          patterns |-> [flags |-> [present |-> {MaudeSignal, ManufacturerNotice},
                                   on |-> {MaudeSignal}],
                        match |-> [exact_model |-> FALSE, fuzzy_model |-> FALSE]]]
Item2 == [id |-> 2, title |-> Title(FallbackLimit),
          patterns |-> [flags |-> [present |-> {MaudeSignal, ManufacturerNotice,
                                                "radiation_safety"},
                                   on |-> {MaudeSignal, ManufacturerNotice,
                                           "radiation_safety"}],
                        match |-> [exact_model |-> TRUE, fuzzy_model |-> TRUE]]]
Item3 == [id |-> 3, title |-> Title(FallbackLimit + 1),
          patterns |-> [flags |-> [present |-> {MaudeSignal, ManufacturerNotice,
                                                "radiation_safety", "california_mandate"},
                                   on |-> {MaudeSignal, ManufacturerNotice,
                                           "radiation_safety", "california_mandate"}],
                        match |-> [exact_model |-> TRUE, fuzzy_model |-> TRUE]]]
Item4 == [id |-> 4, title |-> Title(3),
          patterns |-> [flags |-> [present |-> {}, on |-> {}],
                        match |-> [exact_model |-> FALSE, fuzzy_model |-> FALSE]]]
ItemPool == {Item1, Item2, Item3, Item4}
ItemFeeds == {b \in SeqsUpTo(ItemPool, MaxBatch) :
                \A i, j \in 1..Len(b) : i # j => b[i].id # b[j].id}

PipelineSources == {"recalls", "fedreg", "maude"}
SourceTag(source) ==
    CASE source = "recalls" -> "openfda:enforcement"
      [] source = "fedreg" -> "fedreg:rule"
      [] source = "maude" -> "maude:signal"
SourceName(source) ==
    CASE source = "recalls" -> "openFDA"
      [] source = "fedreg" -> "Federal Register"
      [] source = "maude" -> "MAUDE"

\* the flags of enhancedEvent that are true: patterns.flags, and for /api/maude
\* { ...event.flags, ...patterns.flags } over { maude_signal: true,
\* manufacturer_notice: false }
EnhancedFlags(source, patterns) ==
    IF source = "maude"
    THEN ({MaudeSignal} \ patterns.flags.present) \cup patterns.flags.on
    ELSE patterns.flags.on

PipelineEvent(source, patterns) ==
    LET on == EnhancedFlags(source, patterns)
    IN  [NoEvent EXCEPT !.sources = <<SourceTag(source)>>,
                        !.flags = [defined |-> TRUE,
                                   manufacturer_notice |-> ManufacturerNotice \in on,
                                   maude_signal |-> MaudeSignal \in on,
                                   california_mandate |-> "california_mandate" \in on,
                                   radiation_safety |-> "radiation_safety" \in on],
                        !.match = [defined |-> TRUE,
                                   exact_model |-> patterns.match.exact_model,
                                   fuzzy_model |-> patterns.match.fuzzy_model]]

FedregPenalty == 15
MaudeCap == 70

FedregAdjust_NoFloor(score) == score - FedregPenalty

\* scoring.score = Math.max(scoring.score - 15, 0)
FedregAdjust(score) == Max(score - FedregPenalty, 0)

MaudeAdjust_Uncapped(score) == score

\* scoring.score = Math.min(scoring.score, 70)
MaudeAdjust(score) == Min(score, MaudeCap)

SourceAdjust(source, score) ==
    CASE source = "fedreg" -> FedregAdjust(score)
      [] source = "maude" -> MaudeAdjust(score)
      [] OTHER -> score

\* one iteration of the loop up to storage.createEvent: detect, score, adjust,
\* categorize, summarize
ProcessedItem(source, record, detectOk, summaryOk, today) ==
    LET patterns == detectPatterns(record, detectOk)
        generic == scoreEvent(PipelineEvent(source, patterns)).score
        score == SourceAdjust(source, generic)
        category == categorizeByScore(score)
        answer == IF shouldSummarize(category) THEN summarizeEvent(record.title, summaryOk)
                  ELSE [raised |-> FALSE, summary |-> NullSummary]
    IN  [raised |-> answer.raised,
         asked |-> shouldSummarize(category),
         event |-> [id |-> <<source, record.id>>, source |-> SourceName(source),
                    title |-> record.title, generic |-> generic, score |-> score,
                    category |-> category, summary |-> answer.summary,
                    seenAt |-> today]]

ProcessedItemOf ==
    [source \in PipelineSources, record \in ItemPool, detectOk \in BOOLEAN,
     summaryOk \in BOOLEAN |-> ProcessedItem(source, record, detectOk, summaryOk, 0)]

\* the update at the top of every handler
StatusOnStart == [lastSuccess |-> NullTime, lastError |-> NullTime]

StatusOnSuccess_ResetCount(today) == [lastSuccess |-> today, errorCount24h |-> 0]

\* the update after the loop
StatusOnSuccess(today) == [lastSuccess |-> today]

\* the update of the catch block
StatusOnFailure(table, source, today) ==
    [lastError |-> today, errorCount24h |-> ErrorCountOnFailure(table, source)]

PipelineReply(source, status, events) ==
    [route |-> source, dryRun |-> FALSE, fetched |-> {}, status |-> status,
     count |-> Len(events), events |-> events]

FailureReply_WithEvents(source, processed) == PipelineReply(source, 500, processed)

\* res.status(500).json({ error: ... })
FailureReply(source, processed) == PipelineReply(source, 500, <<>>)

\* line 35, 251 and the like: the handler starts and awaits its fetch
StartPipeline(source) ==
    /\ pipeline.pc = "idle"
    /\ systemStatus' = updateSystemStatus(systemStatus, source, StatusOnStart)
    /\ pipeline' = [IdlePipeline EXCEPT
                       !.pc = "fetch", !.source = source,
                       !.before = [status |-> StatusOf(systemStatus, source),
                                   events |-> storageEvents]]
    /\ aiLog' = <<>>
    /\ UNCHANGED <<now, eventSignatures, eventsJson, aiUsage, response, upstream,
                   snapshotVars, storageEvents>>

StartRecalls ==
    /\ StartPipeline("recalls")
    /\ UNCHANGED <<scoreVars, retryVars, auxVars, runs>>

StartFedreg ==
    /\ StartPipeline("fedreg")
    /\ UNCHANGED <<scoreVars, retryVars, auxVars, runs>>

StartMaude ==
    /\ StartPipeline("maude")
    /\ UNCHANGED <<scoreVars, retryVars, auxVars, runs>>

\* the fetch and the normalizer answered
FetchReturns ==
    /\ pipeline.pc = "fetch"
    /\ \E records \in ItemFeeds :
          /\ Len(storageEvents) + Len(records) <= MaxStored
          /\ pipeline' = [pipeline EXCEPT !.pc = "loop", !.records = records]
    /\ UNCHANGED <<now, eventSignatures, eventsJson, aiUsage, response, aiLog, upstream,
                   snapshotVars, systemStatus, storageEvents, scoreVars, retryVars, auxVars, runs>>

\* what failed during a request, and at which record (0: before the loop)
Failure(at, what) == [at |-> at, what |-> what]

\* the catch block of the handler, entered with the given failures on record
Catch(reasons) ==
    /\ systemStatus' = updateSystemStatus(systemStatus, pipeline.source,
                           StatusOnFailure(systemStatus, pipeline.source, now))
    /\ response' = FailureReply(pipeline.source, pipeline.processed)
    /\ pipeline' = [pipeline EXCEPT !.pc = "idle", !.failed = @ \cup reasons,
                                    !.before = NoSnapshot]

\* withRetry gave up
FetchFails ==
    /\ pipeline.pc = "fetch"
    /\ Catch({Failure(0, "fetch")})
    /\ UNCHANGED <<now, eventSignatures, eventsJson, aiUsage, aiLog, upstream,
                   snapshotVars, storageEvents, scoreVars, retryVars, auxVars, runs>>

\* normalizeData threw; /api/maude does not call it
NormalizeFails ==
    /\ pipeline.pc = "fetch"
    /\ pipeline.source # "maude"
    /\ Catch({Failure(0, "normalizer")})
    /\ UNCHANGED <<now, eventSignatures, eventsJson, aiUsage, aiLog, upstream,
                   snapshotVars, storageEvents, scoreVars, retryVars, auxVars, runs>>

CollaboratorFailures(item, detectOk, summaryOk, at) ==
    (IF detectOk THEN {} ELSE {Failure(at, "detector")})
    \cup (IF item.asked /\ ~summaryOk THEN {Failure(at, "summarizer")} ELSE {})

\* one iteration of the loop; writeOk tells whether the write of events.json
\* inside storage.createEvent went through.  createEvent puts the event in its
\* Map before it writes.
ProcessRecord(writeOk) ==
    /\ pipeline.pc = "loop"
    /\ pipeline.k < Len(pipeline.records)
    /\ \E detectOk, summaryOk \in BOOLEAN :
          LET record == pipeline.records[pipeline.k + 1]
              item == ProcessedItemOf[pipeline.source, record, detectOk, summaryOk]
              event == [item.event EXCEPT !.seenAt = now]
              failures == CollaboratorFailures(item, detectOk, summaryOk, pipeline.k + 1)
          IN  /\ aiLog' = aiLog \o (IF item.asked THEN <<SummarizerCall(event.id)>>
                                    ELSE <<>>)
              /\ IF item.raised
                 THEN /\ Catch(failures)
                      /\ UNCHANGED storageEvents
                 ELSE /\ storageEvents' = Append(storageEvents, event)
                      /\ IF writeOk
                         THEN /\ pipeline' = [pipeline EXCEPT
                                                !.k = @ + 1,
                                                !.processed = Append(@, event),
                                                !.failed = @ \cup failures]
                              /\ UNCHANGED <<systemStatus, response>>
                         ELSE Catch(failures \cup {Failure(pipeline.k + 1, "storage")})
    /\ UNCHANGED <<now, eventSignatures, eventsJson, aiUsage, upstream, snapshotVars>>

CreateEvent ==
    /\ ProcessRecord(TRUE)
    /\ UNCHANGED <<scoreVars, retryVars, auxVars, runs>>

CreateEventFails ==
    /\ ProcessRecord(FALSE)
    /\ UNCHANGED <<scoreVars, retryVars, auxVars, runs>>

\* after the loop: the success update and the reply
Finish ==
    /\ pipeline.pc = "loop"
    /\ pipeline.k = Len(pipeline.records)
    /\ systemStatus' = updateSystemStatus(systemStatus, pipeline.source,
                                          StatusOnSuccess(now))
    /\ response' = PipelineReply(pipeline.source, 200, pipeline.processed)
    /\ pipeline' = [pipeline EXCEPT !.pc = "idle", !.before = NoSnapshot]
    /\ UNCHANGED <<now, eventSignatures, eventsJson, aiUsage, aiLog, upstream,
                   snapshotVars, storageEvents, scoreVars, retryVars, auxVars, runs>>

\* GET /api/status: the table as it is reported
StatusReport(table) ==
    LET sources == {table[i].source : i \in DOMAIN table}
        \* statuses.forEach assigns by source: a later entry overwrites
        last(s) == table[CHOOSE i \in FindStatus(table, s) :
                            \A j \in FindStatus(table, s) : j <= i]
    IN  [route |-> "/api/status", status |-> 200,
         lastSuccess |-> [s \in sources |-> last(s).lastSuccess],
         lastError |-> [s \in sources |-> last(s).lastError],
         errorCounts24h |-> [s \in sources |-> last(s).errorCount24h]]

ReadStatus ==
    /\ response' = StatusReport(systemStatus)
    /\ UNCHANGED <<now, eventSignatures, eventsJson, aiUsage, aiLog, upstream,
                   snapshotVars, storageVars, scoreVars, retryVars, auxVars, runs>>

------------------------------------------------------------------------------
(* batchSummarize of server/lib/ai-perplexity.ts, between its awaits.  The   *)
(* clock of a call counts milliseconds from its start.                       *)

BatchDelay == 1000

\* how long a call of the summarizer may take, and how late a timer may fire
CallDurations == {0, 400}
TimerLateness == {0, 5}

BatchEvent1 == [id |-> 1, title |-> Title(3)]
BatchEvent2 == [id |-> 2, title |-> Title(FallbackLimit + 1)]
BatchEvent3 == [id |-> 3, title |-> Title(2)]
BatchInputs == {b \in SeqsUpTo({BatchEvent1, BatchEvent2, BatchEvent3}, MaxBatch) :
                  \A i, j \in 1..Len(b) : i # j => b[i].id # b[j].id}

TimerDue_NoWait(clock) == clock

\* await new Promise(resolve => setTimeout(resolve, 1000))
TimerDue(clock) == clock + BatchDelay

\* the loop goes to its next event and calls the summarizer for it, or returns
NextInBatch(b, clock) ==
    IF b.k < Len(b.events)
    THEN [b EXCEPT !.pc = "calling", !.k = @ + 1, !.clock = clock,
                   !.calls = Append(@, [id |-> b.events[b.k + 1].id, start |-> clock,
                                        ended |-> FALSE, end |-> 0])]
    ELSE [b EXCEPT !.pc = "done", !.clock = clock]

\* batchSummarize(events) is called
BatchStarts ==
    /\ batch.pc = "idle"
    /\ \E events \in BatchInputs :
          batch' = NextInBatch([IdleBatch EXCEPT !.events = events], 0)
    /\ UNCHANGED <<routerVarsButBatch, scoreVars, retryVars>>

\* `await summarizeEvent(event)` settles: the summary is pushed and the timer
\* set, or the catch pushes the fallback and the loop goes on at once
SummarizerAnswers ==
    /\ batch.pc = "calling"
    /\ \E callOk \in BOOLEAN, took \in CallDurations :
          LET event == batch.events[batch.k]
              answer == summarizeEvent(event.title, callOk)
              clock == batch.clock + took
              ended == [batch EXCEPT !.clock = clock,
                                     !.calls[batch.k].ended = TRUE,
                                     !.calls[batch.k].end = clock]
          IN  IF answer.raised
              THEN batch' = NextInBatch(
                       [ended EXCEPT !.summaries =
                            Append(@, [eventId |-> event.id,
                                       summary |-> FallbackSummary(event.title)])],
                       clock)
              ELSE batch' = [ended EXCEPT !.pc = "waiting",
                                          !.summaries =
                                              Append(@, [eventId |-> event.id,
                                                         summary |-> answer.summary.text])]
    /\ UNCHANGED <<routerVarsButBatch, scoreVars, retryVars>>

\* the timer fires, no earlier than it is due
TimerFires ==
    /\ batch.pc = "waiting"
    /\ \E late \in TimerLateness :
          batch' = NextInBatch(batch, TimerDue(batch.clock) + late)
    /\ UNCHANGED <<routerVarsButBatch, scoreVars, retryVars>>

------------------------------------------------------------------------------
(* GET /api/cms-pfs of server/routes.ts *)

\* currentRates, in cents, in the order of Object.entries
CmsCodes == <<70450, 70460, 70470, 70551, 70552, 70553, 72148, 72149, 72158, 73721, 73722>>
CmsRates ==
    [code \in Range(CmsCodes) |->
        CASE code = 70553 -> 29665 [] code = 70552 -> 24532 [] code = 70551 -> 18987
          [] code = 70450 -> 15643 [] code = 70460 -> 19876 [] code = 70470 -> 23421
          [] code = 72148 -> 31245 [] code = 72149 -> 38912 [] code = 72158 -> 44567
          [] code = 73721 -> 27890 [] code = 73722 -> 33455]

\* what lastSnapshot of cms.json may hold when the process starts: nothing (no
\* file: the fallback {}), the current rates, one rate $66.65 lower, two rates
\* lower by 1%, or an older list with one code unknown and one rate 0
CmsSnapshots ==
    { EmptyMap,
      CmsRates,
      [CmsRates EXCEPT ![70553] = 23000],
      [CmsRates EXCEPT ![70460] = 19677, ![72148] = 30933],
      [code \in Range(CmsCodes) \ {73722} |->
          IF code = 70450 THEN 0 ELSE CmsRates[code]] }

\* lastSnapshot[cptCode]; an absent code reads undefined, falsy like a rate 0
OldRate(snapshot, code) == IF MapHas(snapshot, code) THEN snapshot[code] ELSE 0

HasChanged_NoPrevious(snapshot, code, newRate) == OldRate(snapshot, code) # newRate

\* `if (oldRate && oldRate !== newRate)`
HasChanged(snapshot, code, newRate) ==
    OldRate(snapshot, code) # 0 /\ OldRate(snapshot, code) # newRate

RECURSIVE CmsChanges(_, _)
CmsChanges(snapshot, k) ==
    IF k = 0 THEN <<>>
    ELSE CmsChanges(snapshot, k - 1)
         \o (IF HasChanged(snapshot, CmsCodes[k], CmsRates[CmsCodes[k]])
             THEN <<[cptCode |-> CmsCodes[k], oldRate |-> OldRate(snapshot, CmsCodes[k]),
                     newRate |-> CmsRates[CmsCodes[k]]]>>
             ELSE <<>>)

\* the event of a change, scored, categorized and summarized.  scoreEvent
\* tests the delta in dollars: more than $50 is 5001 cents or more
CmsEvent(change, today) ==
    LET dollars == (Abs(change.newRate - change.oldRate) + 99) \div 100
        scoring == scoreEvent([NoEvent EXCEPT
                       !.sources = <<"cms:pfs_change">>,
                       !.flags = [defined |-> TRUE, manufacturer_notice |-> TRUE,
                                  maude_signal |-> FALSE, california_mandate |-> FALSE,
                                  radiation_safety |-> FALSE],
                       !.match = [defined |-> TRUE, exact_model |-> FALSE,
                                  fuzzy_model |-> FALSE],
                       !.delta = [defined |-> TRUE, old |-> 0, new |-> dollars]])
        category == categorizeByScore(scoring.score)
    IN  [id |-> <<"cms-pfs-", change.cptCode>>, source |-> "CMS",
         signature |-> NoSignature, seenAt |-> today,
         category |-> category, score |-> scoring.score,
         summary |-> IF shouldSummarize(category) THEN SummaryText ELSE NoSummary,
         cptCode |-> change.cptCode,
         delta |-> [old |-> change.oldRate, new |-> change.newRate]]

\* GET /api/cms-pfs.  failAt = 0: no collaborator throws.  failAt = j: the
\* write inside the j-th storage.createEvent throws, the event already in the
\* Map, or storage.saveToFile throws when there is no j-th change.
ApiCmsPfs(failAt) ==
    LET started == updateSystemStatus(systemStatus, "cms_pfs", StatusOnStart)
        changes == CmsChanges(cmsJson, Len(CmsCodes))
        events == [k \in DOMAIN changes |-> CmsEvent(changes[k], now)]
    IN  /\ failAt <= Len(events) + 1
        /\ IF failAt = 0
           THEN /\ storageEvents' = storageEvents \o events
                /\ cmsJson' = CmsRates
                /\ systemStatus' = updateSystemStatus(started, "cms_pfs",
                                                      StatusOnSuccess(now))
                /\ response' = PipelineReply("/api/cms-pfs", 200, events)
           ELSE /\ storageEvents' = storageEvents
                                      \o SubSeq(events, 1, Min(failAt, Len(events)))
                /\ cmsJson' = cmsJson
                /\ systemStatus' = updateSystemStatus(started, "cms_pfs",
                                        StatusOnFailure(started, "cms_pfs", now))
                /\ response' = FailureReply("/api/cms-pfs", events)
        /\ Len(storageEvents') <= MaxStored
        /\ aiLog' = SummarizerCalls(events, IF failAt = 0 THEN Len(events)
                                            ELSE Min(failAt, Len(events)))
        /\ UNCHANGED <<now, eventSignatures, eventsJson, aiUsage, upstream, snapshotVars,
                       pipeline, smsLog, batch, inFlight>>

------------------------------------------------------------------------------
(* POST /api/send-sms of server/routes.ts *)

MaxSms == 2

\* the body of a request: alertId 0 stands for an absent or empty id, and an id
\* above the number of stored events for one that the store does not hold
NoPhones == [defined |-> FALSE, list |-> <<>>]
PhoneInputs == {NoPhones, [defined |-> TRUE, list |-> <<>>],
                [defined |-> TRUE, list |-> <<"+1555">>]}
SmsRequests(stored) == [alertId : 0..(Len(stored) + 1), phoneNumbers : PhoneInputs]

\* !alertId || !phoneNumbers?.length
SmsBodyMissing(request) ==
    request.alertId = 0 \/ ~request.phoneNumbers.defined \/ request.phoneNumbers.list = <<>>

\* storage.getEventById: the event under the id, if the Map holds one
HasEvent(stored, id) == id \in 1..Len(stored)

SmsAllowed_AnyCategory(alert) == TRUE

\* alert.category !== 'Urgent' rejects
SmsAllowed(alert) == alert.category = "Urgent"

SmsReply(request, status) == [route |-> "/api/send-sms", status |-> status, request |-> request]

\* POST /api/send-sms.  senderOk tells whether sendUrgentSMS returned or threw.
SendSms(request, senderOk) ==
    /\ IF SmsBodyMissing(request)
       THEN response' = SmsReply(request, 400) /\ UNCHANGED smsLog
       ELSE IF ~HasEvent(storageEvents, request.alertId)
       THEN response' = SmsReply(request, 404) /\ UNCHANGED smsLog
       ELSE IF ~SmsAllowed(storageEvents[request.alertId])
       THEN response' = SmsReply(request, 400) /\ UNCHANGED smsLog
       ELSE /\ Len(smsLog) < MaxSms
            /\ smsLog' = Append(smsLog, [alert |-> request.alertId,
                                         phones |-> request.phoneNumbers.list])
            /\ response' = SmsReply(request, IF senderOk THEN 200 ELSE 500)
    /\ UNCHANGED <<now, eventSignatures, eventsJson, aiUsage, aiLog, upstream,
                   snapshotVars, storageVars, batch, cmsJson, inFlight>>

------------------------------------------------------------------------------
\* The days at which requests are observed: the start, the last day of the
\* window, the first day after it, and the last day of the clock.
Instants == {0, WindowDays, WindowDays + 1, MaxDay}

\* time passes, up to a later instant
Tick ==
    /\ \E later \in Instants : later > now /\ now' = later
    /\ UNCHANGED <<eventSignatures, eventsJson, aiUsage, response, aiLog, upstream,
                   snapshotVars, storageVars, scoreVars, retryVars, auxVars, runs>>

------------------------------------------------------------------------------
(* GET /recalls/device, step by step: requests interleave at their awaits *)

\* the requests that may be in flight together
Requests == {1, 2}

\* A request between two awaits: "idle" before it arrives, "summarizing" in
\* `await summarizeEvent` for record k, "reading" in `await readJSON`,
\* "writing" in `await writeJSON`, "done" once the response is sent.
IdleRun == [pc |-> "idle", dryRun |-> FALSE, results |-> <<>>, k |-> 0, events |-> <<>>,
            existing |-> <<>>]

Granted(usage) == [asked |-> TRUE, granted |-> TRUE, usage |-> usage]

\* The loop from record k on, up to the next await: a duplicate is skipped and
\* an event without a granted summary is pushed and tracked at once; a granted
\* summary suspends the request in summarizeEvent, counter already incremented.
\* sh is the shared state [window, usage, log].
RECURSIVE RunToAwait(_, _, _)
RunToAwait(run, sh, today) ==
    IF run.k > Len(run.results)
    THEN [run |-> [run EXCEPT !.pc = IF ~run.dryRun /\ Len(run.events) > 0
                                     THEN "reading" ELSE "done"],
          sh |-> sh]
    ELSE LET recall == run.results[run.k]
             signature == SignatureOf[recall]
             category == CategoryOf[recall.deviceMatch]
             id == <<"fda-device-", recall.number>>
             gate == IF CallsGate(category, run.dryRun) THEN TryConsume(sh.usage, today)
                     ELSE NotAsked(sh.usage)
             asked == [sh EXCEPT !.usage = gate.usage,
                                 !.log = @ \o LogOf(id, UsageToday(sh.usage, today), gate)]
         IN  IF isDuplicate(signature, sh.window, today)
             THEN RunToAwait([run EXCEPT !.k = @ + 1],
                             [sh EXCEPT !.window = OnDuplicate(@, signature, today)], today)
             ELSE IF gate.granted
             THEN [run |-> [run EXCEPT !.pc = "summarizing"], sh |-> asked]
             ELSE RunToAwait(
                      [run EXCEPT !.k = @ + 1,
                                  !.events = Append(@, DeviceEvent(id, signature, category,
                                                                   gate, today))],
                      [asked EXCEPT !.window = TrackSignature(@, signature, run.dryRun,
                                                              today)],
                      today)

Shared == [window |-> eventSignatures, usage |-> aiUsage, log |-> aiLog]

\* the request goes on to its next await, or to its response
Proceed(p, next) ==
    /\ runs' = [runs EXCEPT ![p] = next.run]
    /\ eventSignatures' = next.sh.window
    /\ aiUsage' = next.sh.usage
    /\ aiLog' = next.sh.log
    /\ response' = IF next.run.pc = "done"
                   THEN Reply("/recalls/device", next.run.dryRun,
                              BatchSignatures(next.run.results), 200, next.run.events)
                   ELSE response

\* the fetch and the reads before the loop have resolved: the loop starts
StartRun ==
    /\ \E p \in Requests, results \in QuotaBatches, dryRun \in BOOLEAN :
          /\ runs[p].pc = "idle"
          /\ Proceed(p, RunToAwait([IdleRun EXCEPT !.pc = "loop", !.dryRun = dryRun,
                                                   !.results = results, !.k = 1],
                                   Shared, now))
    /\ UNCHANGED <<now, eventsJson, upstream, snapshotVars, storageVars, scoreVars, retryVars, auxVars>>

\* the fetch answered with an error status: the 500
StartRunFetchFails ==
    /\ \E p \in Requests, dryRun \in BOOLEAN :
          /\ runs[p].pc = "idle"
          /\ runs' = [runs EXCEPT ![p] = [IdleRun EXCEPT !.pc = "done", !.dryRun = dryRun]]
          /\ response' = Reply("/recalls/device", dryRun, {}, 500, <<>>)
    /\ UNCHANGED <<now, eventSignatures, eventsJson, aiUsage, aiLog, upstream,
                   snapshotVars, storageVars, scoreVars, retryVars, auxVars>>

\* summarizeEvent resolves: the summary is set, the event pushed, its
\* signature tracked, and the loop goes on
SummaryReturns ==
    /\ \E p \in Requests :
          /\ runs[p].pc = "summarizing"
          /\ LET run == runs[p]
                 recall == run.results[run.k]
                 signature == SignatureOf[recall]
                 event == DeviceEvent(<<"fda-device-", recall.number>>, signature,
                                      CategoryOf[recall.deviceMatch], Granted(aiUsage), now)
             IN  Proceed(p, RunToAwait(
                      [run EXCEPT !.pc = "loop", !.k = @ + 1, !.events = Append(@, event)],
                      [Shared EXCEPT !.window = TrackSignature(@, signature, run.dryRun,
                                                               now)],
                      now))
    /\ UNCHANGED <<now, eventsJson, upstream, snapshotVars, storageVars, scoreVars, retryVars, auxVars>>

\* `await readJSON('events.json')` resolves with the file's content
ReadExisting ==
    /\ \E p \in Requests :
          /\ runs[p].pc = "reading"
          /\ runs' = [runs EXCEPT ![p].pc = "writing", ![p].existing = eventsJson]
    /\ UNCHANGED <<now, eventSignatures, eventsJson, aiUsage, response, aiLog, upstream,
                   snapshotVars, storageVars, scoreVars, retryVars, auxVars>>

\* `await writeJSON('events.json', updatedEvents)` resolves, then the response
WriteBack ==
    /\ \E p \in Requests :
          /\ runs[p].pc = "writing"
          /\ eventsJson' = KeepLast(runs[p].existing \o runs[p].events, RetentionLimit)
          /\ runs' = [runs EXCEPT ![p].pc = "done"]
          /\ response' = Reply("/recalls/device", FALSE, BatchSignatures(runs[p].results),
                               200, runs[p].events)
    /\ UNCHANGED <<now, eventSignatures, aiUsage, aiLog, upstream,
                   snapshotVars, storageVars, scoreVars, retryVars, auxVars>>

------------------------------------------------------------------------------
\* midnight passes: the next calendar day begins
NextDay ==
    /\ now < MaxQuotaDay
    /\ now' = now + 1
    /\ UNCHANGED <<eventSignatures, eventsJson, aiUsage, response, aiLog, upstream,
                   snapshotVars, storageVars, scoreVars, retryVars, auxVars, runs>>

RouterIdle ==
    /\ now = 0 /\ eventSignatures = EmptyMap /\ eventsJson = <<>>
    /\ aiUsage = [count |-> 0, day |-> 0]
    /\ response = Reply("none", FALSE, {}, 0, <<>>)
    /\ aiLog = <<>>
    /\ upstream = <<>>
    /\ cptRatesPrevious = EmptyMap /\ maudeCounts = EmptyMap /\ deadlinesJson = <<>>
    /\ systemStatus = <<>> /\ storageEvents = <<>>
    /\ pipeline = IdlePipeline
    /\ smsLog = <<>> /\ batch = IdleBatch /\ cmsJson = EmptyMap
    /\ inFlight = [r \in Requests |-> IdleRequest]
    /\ runs = [p \in Requests |-> IdleRun]

ScoreIdle ==
    /\ job = [fn |-> "none", event |-> NoEvent, score |-> 0, category |-> ""]
    /\ out = NoOut

------------------------------------------------------------------------------
(* Specifications *)

InitScore ==
    /\ \/ job \in ScoreJobs
       \/ job \in CategorizeJobs
       \/ job \in SummarizeJobs
    /\ out = NoOut
    /\ RetryIdle
    /\ RouterIdle

NextScore == ScoreCall \/ CategorizeCall \/ SummarizeCall

SpecScore == InitScore /\ [][NextScore]_vars

InitRetry ==
    /\ ScoreIdle
    /\ rArgs \in RetryArgs
    /\ rOp \in OpScripts
    /\ rPc = "loop" /\ rI = 0 /\ rCalls = 0 /\ rWaits = <<>>
    /\ rLastError = NoError /\ rResult = 0
    /\ RouterIdle

NextRetry == Attempt \/ Backoff \/ LastCatch \/ Exhausted

SpecRetry == InitRetry /\ [][NextRetry]_vars

InitDedup == ScoreIdle /\ RetryIdle /\ RouterIdle

\* a device-recall request whose upstream fetch succeeds
RunDevice ==
    /\ \E results \in Batches, dryRun \in BOOLEAN : DeviceRecalls(results, dryRun, TRUE)
    /\ UNCHANGED <<upstream, snapshotVars, storageVars, scoreVars, retryVars, auxVars, runs>>

\* a device-recall request whose upstream answers with an error status
RunDeviceFetchFails ==
    /\ \E dryRun \in BOOLEAN : DeviceRecalls(<<>>, dryRun, FALSE)
    /\ UNCHANGED <<upstream, snapshotVars, storageVars, scoreVars, retryVars, auxVars, runs>>

\* a drug-recall request whose FDA fetch succeeds
RunDrug ==
    /\ \E results \in Batches, dryRun \in BOOLEAN : DrugRecalls(results, dryRun, TRUE)
    /\ UNCHANGED <<upstream, snapshotVars, storageVars, scoreVars, retryVars, auxVars, runs>>

\* a drug-recall request whose FDA fetch answers with an error status
RunDrugFdaDown ==
    /\ \E dryRun \in BOOLEAN : DrugRecalls(<<>>, dryRun, FALSE)
    /\ UNCHANGED <<upstream, snapshotVars, storageVars, scoreVars, retryVars, auxVars, runs>>

NextDedup == RunDevice \/ RunDeviceFetchFails \/ RunDrug \/ RunDrugFdaDown \/ Tick

SpecDedup == InitDedup /\ [][NextDedup]_vars

\* The quota gate: device-recall requests over matched and unmatched devices,
\* across calendar days.
InitGate == ScoreIdle /\ RetryIdle /\ RouterIdle

RunDeviceQuota ==
    /\ \E results \in QuotaBatches, dryRun \in BOOLEAN : DeviceRecalls(results, dryRun, TRUE)
    /\ UNCHANGED <<upstream, snapshotVars, storageVars, scoreVars, retryVars, auxVars, runs>>

NextGate == RunDeviceQuota \/ NextDay

SpecGate == InitGate /\ [][NextGate]_vars

\* The /api/recalls pipeline of server/routes.ts with the status table.
InitApi == ScoreIdle /\ RetryIdle /\ RouterIdle

RunApiRecalls ==
    /\ \E records \in EnforcementFeeds : ApiRecalls(records, "ok")
    /\ UNCHANGED <<scoreVars, retryVars, auxVars, runs>>

RunApiRecallsFails ==
    /\ \E outcome \in {"fetch", "normalize"} : ApiRecalls(<<>>, outcome)
    /\ UNCHANGED <<scoreVars, retryVars, auxVars, runs>>

NextApi == RunApiRecalls \/ RunApiRecallsFails \/ Tick

SpecApi == InitApi /\ [][NextApi]_vars

\* time passes, from the start to the last day of the clock, also while a
\* request is in flight
Later ==
    /\ now = 0 /\ now' = MaxDay
    /\ UNCHANGED <<eventSignatures, eventsJson, aiUsage, response, aiLog, upstream,
                   snapshotVars, storageVars, scoreVars, retryVars, auxVars, runs>>

\* The status updates of pipeline requests that run in parallel: each request
\* updates the table when it starts and when it succeeds or fails, with awaits
\* in between; updateSystemStatus itself has no await and runs to its end.

RequestUpdates(r, pc, source, status) ==
    /\ systemStatus' = updateSystemStatus(systemStatus, source, status)
    /\ inFlight' = [inFlight EXCEPT ![r] = [pc |-> pc, source |-> source, passed |-> status]]
    /\ UNCHANGED <<now, eventSignatures, eventsJson, aiUsage, response, aiLog, upstream,
                   snapshotVars, storageEvents, pipeline, smsLog, batch, cmsJson,
                   scoreVars, retryVars, runs>>

RequestStarts ==
    \E r \in Requests, source \in PipelineSources :
        /\ inFlight[r].pc = "idle"
        /\ RequestUpdates(r, "running", source, StatusOnStart)

RequestSucceeds ==
    \E r \in Requests :
        /\ inFlight[r].pc = "running"
        /\ RequestUpdates(r, "idle", inFlight[r].source, StatusOnSuccess(now))

RequestFails ==
    \E r \in Requests :
        /\ inFlight[r].pc = "running"
        /\ RequestUpdates(r, "idle", inFlight[r].source,
                          StatusOnFailure(systemStatus, inFlight[r].source, now))

InitTable == ScoreIdle /\ RetryIdle /\ RouterIdle

NextTable == RequestStarts \/ RequestSucceeds \/ RequestFails \/ Later

SpecTable == InitTable /\ [][NextTable]_vars

\* The /api/recalls pipeline between its awaits, with the status table and its
\* report, at the start and on the last day of the clock.
InitStatus == ScoreIdle /\ RetryIdle /\ RouterIdle

NextStatus ==
    \/ StartRecalls \/ FetchReturns \/ FetchFails \/ NormalizeFails
    \/ CreateEvent \/ CreateEventFails \/ Finish \/ ReadStatus \/ Later

SpecStatus == InitStatus /\ [][NextStatus]_vars

\* The device-recall handler of the router and the /api/recalls pipeline of
\* server/routes.ts, each storing what it processed.
InitSummary == ScoreIdle /\ RetryIdle /\ RouterIdle

NextSummary == RunDevice \/ RunApiRecalls

SpecSummary == InitSummary /\ [][NextSummary]_vars

\* One call of batchSummarize.
InitBatch == ScoreIdle /\ RetryIdle /\ RouterIdle

NextBatch == BatchStarts \/ SummarizerAnswers \/ TimerFires

SpecBatch == InitBatch /\ [][NextBatch]_vars

\* POST /api/send-sms over the events that /api/recalls has stored.
InitSms == ScoreIdle /\ RetryIdle /\ RouterIdle

PostSendSms ==
    /\ \E request \in SmsRequests(storageEvents), senderOk \in BOOLEAN :
          SendSms(request, senderOk)
    /\ UNCHANGED <<scoreVars, retryVars, runs>>

NextSms == RunApiRecalls \/ PostSendSms

SpecSms == InitSms /\ [][NextSms]_vars

\* The /api/fedreg and /api/maude pipelines between their awaits, on one day.
InitAdjust == ScoreIdle /\ RetryIdle /\ RouterIdle

NextAdjust ==
    \/ StartFedreg \/ StartMaude \/ FetchReturns \/ FetchFails \/ NormalizeFails
    \/ CreateEvent \/ CreateEventFails \/ Finish

SpecAdjust == InitAdjust /\ [][NextAdjust]_vars

\* The router's pipelines that keep a snapshot, and the device pipeline, in
\* both modes on one day, and the failing /api/recalls run, which writes the
\* status table.
InitDryRun ==
    /\ ScoreIdle /\ RetryIdle
    /\ now = 0 /\ eventSignatures = EmptyMap /\ eventsJson = <<>>
    /\ aiUsage = [count |-> 0, day |-> 0]
    /\ response = Reply("none", FALSE, {}, 0, <<>>)
    /\ aiLog = <<>> /\ upstream = <<>>
    /\ cptRatesPrevious \in PreviousSnapshots
    /\ maudeCounts = EmptyMap /\ deadlinesJson = <<>>
    /\ systemStatus = <<>> /\ storageEvents = <<>>
    /\ pipeline = IdlePipeline
    /\ smsLog = <<>> /\ batch = IdleBatch /\ cmsJson = EmptyMap
    /\ inFlight = [r \in Requests |-> IdleRequest]
    /\ runs = [p \in Requests |-> IdleRun]

FetchDevice ==
    /\ \E results \in Batches, dryRun \in BOOLEAN :
          DeviceRecalls(results, dryRun, TRUE) /\ upstream' = results
    /\ UNCHANGED <<snapshotVars, storageVars, scoreVars, retryVars, auxVars, runs>>

RunCptPfs ==
    /\ \E dryRun \in BOOLEAN : CptPfs(dryRun)
    /\ upstream' = <<>>
    /\ UNCHANGED <<storageVars, scoreVars, retryVars, auxVars, runs>>

FetchMaude ==
    /\ \E results \in MaudeFeeds, dryRun \in BOOLEAN :
          Maude(results, dryRun, TRUE) /\ upstream' = results
    /\ UNCHANGED <<storageVars, scoreVars, retryVars, auxVars, runs>>

FetchMaudeFails ==
    /\ \E dryRun \in BOOLEAN : Maude(<<>>, dryRun, FALSE)
    /\ upstream' = <<>>
    /\ UNCHANGED <<storageVars, scoreVars, retryVars, auxVars, runs>>

RunDeadlines ==
    /\ \E dryRun \in BOOLEAN : Deadlines(dryRun)
    /\ upstream' = <<>>
    /\ UNCHANGED <<storageVars, scoreVars, retryVars, auxVars, runs>>

\* Two device-recall requests that interleave at their awaits.
InitConc == ScoreIdle /\ RetryIdle /\ RouterIdle

NextConc == StartRun \/ StartRunFetchFails \/ SummaryReturns \/ ReadExisting \/ WriteBack

SpecConc == InitConc /\ [][NextConc]_vars

NextDryRun ==
    \/ FetchDevice \/ RunCptPfs \/ FetchMaude \/ FetchMaudeFails
    \/ RunDeadlines \/ RunApiRecallsFails

SpecDryRun == InitDryRun /\ [][NextDryRun]_vars

\* The two payment-schedule handlers, /cpt/pfs of the router and /api/cms-pfs
\* of server/routes.ts, from every snapshot the files may hold.
InitPfs ==
    /\ ScoreIdle /\ RetryIdle
    /\ now = 0 /\ eventSignatures = EmptyMap /\ eventsJson = <<>>
    /\ aiUsage = [count |-> 0, day |-> 0]
    /\ response = Reply("none", FALSE, {}, 0, <<>>)
    /\ aiLog = <<>> /\ upstream = <<>>
    /\ cptRatesPrevious \in PreviousSnapshots
    /\ maudeCounts = EmptyMap /\ deadlinesJson = <<>>
    /\ systemStatus = <<>> /\ storageEvents = <<>>
    /\ runs = [r \in Requests |-> IdleRun]
    /\ pipeline = IdlePipeline
    /\ smsLog = <<>> /\ batch = IdleBatch
    /\ inFlight = [r \in Requests |-> IdleRequest]
    /\ cmsJson \in CmsSnapshots

RunApiCmsPfs ==
    /\ ApiCmsPfs(0)
    /\ UNCHANGED <<scoreVars, retryVars, runs>>

RunApiCmsPfsFails ==
    /\ \E failAt \in 1..(MaxStored + 1) : ApiCmsPfs(failAt)
    /\ UNCHANGED <<scoreVars, retryVars, runs>>

NextPfs == RunCptPfs \/ RunApiCmsPfs \/ RunApiCmsPfsFails

SpecPfs == InitPfs /\ [][NextPfs]_vars

------------------------------------------------------------------------------
(* Claims on score.ts, checked under SpecScore *)

Tiers == {"Urgent", "Informational", "Digest", "Suppressed"}

\* C1: for every integer score categorizeByScore returns exactly one tier, with
\* inclusive lower bounds: >= 85 Urgent, 75..84 Informational, 50..74 Digest,
\* below 50 Suppressed.
C1_TierBoundaries ==
    (out.done /\ job.fn \in {"categorizeByScore", "scoreEvent"}) =>
        /\ out.category \in Tiers
        /\ (out.category = "Urgent") <=> (out.score >= 85)
        /\ (out.category = "Informational") <=> (75 <= out.score /\ out.score < 85)
        /\ (out.category = "Digest") <=> (50 <= out.score /\ out.score < 75)
        /\ (out.category = "Suppressed") <=> (out.score < 50)

\* categorizeByScore(84) has returned Informational
C1_Witness ==
    out.done /\ job.fn = "categorizeByScore" /\ job.score = 84
             /\ out.category = "Informational"

\* The scoring table: the points and the reason of each rule, in table order.
TablePoints == <<60, 70, 65, 70, 20, 10, 25, 30, 20, 10, 15, 5, 15, 10>>

TableReason(event) ==
    << <<"FDA enforcement action">>,
       <<"Official CMS payment change">>,
       <<"California Department of Public Health alert">>,
       <<"California Radiologic Health Branch requirement">>,
       <<"Manufacturer notice present">>,
       <<"MAUDE signal detected">>,
       <<"California state mandate">>,
       <<"Radiation safety requirement">>,
       <<"Exact device model match">>,
       <<"Fuzzy device model match">>,
       <<"Critical radiology modality: ", event.modalityType>>,
       <<"Major California market: ", event.californiaRegion>>,
       <<"Significant financial impact">>,
       <<"High radiology impact">> >>

\* which rules of the table an input satisfies
TableSatisfied(event) ==
    << "openfda:enforcement" \in Range(event.sources),
       "cms:pfs_change" \in Range(event.sources),
       "cdph" \in Range(event.sources),
       "rhb" \in Range(event.sources),
       event.flags.defined /\ event.flags.manufacturer_notice,
       event.flags.defined /\ event.flags.maude_signal,
       event.flags.defined /\ event.flags.california_mandate,
       event.flags.defined /\ event.flags.radiation_safety,
       event.match.defined /\ event.match.exact_model,
       event.match.defined /\ event.match.fuzzy_model,
       event.modalityType \in {"CT", "MRI", "Nuclear Medicine", "Mammography"},
       event.californiaRegion \in {"Bay Area", "Greater LA", "San Diego"},
       event.delta.defined /\ (event.delta.new - event.delta.old > 50
                               \/ event.delta.old - event.delta.new > 50),
       event.radiologyImpact = "High" >>

RECURSIVE TableSum(_, _)
TableSum(sat, k) ==
    IF k = 0 THEN 0 ELSE TableSum(sat, k - 1) + (IF sat[k] THEN TablePoints[k] ELSE 0)

RECURSIVE TableReasons(_, _, _)
TableReasons(sat, reasons, k) ==
    IF k = 0 THEN <<>>
    ELSE LET before == TableReasons(sat, reasons, k - 1)
         IN  IF sat[k] THEN Append(before, reasons[k]) ELSE before

Reverse(seq) == [k \in 1..Len(seq) |-> seq[Len(seq) + 1 - k]]
Rotate(seq) == IF seq = <<>> THEN seq ELSE Append(Tail(seq), Head(seq))

\* C2: the score is the exact sum of the points of the satisfied rules, each
\* counted once, whatever the order of the sources list, and reasons holds the
\* reason of each satisfied rule once, in table order.
C2_ScoreIsTableSum ==
    (out.done /\ job.fn = "scoreEvent") =>
        LET sat == TableSatisfied(job.event)
        IN  /\ out.score = TableSum(sat, 14)
            /\ out.reasons = TableReasons(sat, TableReason(job.event), 14)
            /\ scoreEvent([job.event EXCEPT !.sources = Reverse(@)])
                 = [score |-> out.score, reasons |-> out.reasons]
            /\ scoreEvent([job.event EXCEPT !.sources = Rotate(@)])
                 = [score |-> out.score, reasons |-> out.reasons]

\* an input with two sources, flags, a match, a modality and a delta of 51 scored
C2_Witness ==
    /\ out.done /\ job.fn = "scoreEvent"
    /\ job.event.sources = <<"cdph", "openfda:enforcement">>
    /\ job.event.flags.defined /\ job.event.flags.manufacturer_notice
    /\ job.event.delta = [defined |-> TRUE, old |-> 100, new |-> 151]
    /\ job.event.modalityType = "MRI"
    /\ out.score = 60 + 65 + 20 + 15 + 15
    /\ Len(out.reasons) = 5

\* C3: shouldSummarize is true exactly for Urgent and Informational, false for
\* every other value; after categorizeByScore it is true exactly for scores >= 75.
C3_SummarizeTiers ==
    /\ (out.done /\ job.fn = "shouldSummarize") =>
           (out.summarize <=> job.category \in {"Urgent", "Informational"})
    /\ (out.done /\ job.fn \in {"categorizeByScore", "scoreEvent"}) =>
           (out.summarize <=> out.score >= 75)

\* a score of 75 has been categorized and is to be summarized
C3_Witness ==
    out.done /\ job.fn = "categorizeByScore" /\ job.score = 75 /\ out.summarize

------------------------------------------------------------------------------
(* Claims on withRetry, checked under SpecRetry *)

RetryEnded == rPc \in {"returned", "thrown"}

\* C4: with the default limit, an operation that fails twice and then succeeds
\* is invoked exactly 3 times, with waits of 200ms and 800ms, the third
\* attempt's value is returned, and nothing runs after the success.
C4_FailTwiceThenSucceed ==
    (rArgs = <<>> /\ rOp = 2) =>
        /\ rCalls <= 3 /\ Len(rWaits) <= 2
        /\ RetryEnded =>
             /\ rPc = "returned" /\ rResult = 3
             /\ rCalls = 3 /\ rWaits = <<200, 800>>
             /\ ~ENABLED NextRetry

\* the default-limit run of a fail-twice operation has returned
C4_Witness == rArgs = <<>> /\ rOp = 2 /\ rPc = "returned" /\ rCalls = 3

\* C5: an operation that always fails is invoked exactly maxRetries times
\* (maxRetries >= 1), waits happen only between attempts, and the error thrown
\* is the one the last attempt raised.
C5_AlwaysFails ==
    (rOp = Always /\ maxRetries >= 1) =>
        /\ Len(rWaits) < maxRetries
        /\ Len(rWaits) <= rCalls
        /\ RetryEnded =>
             /\ rPc = "thrown"
             /\ rCalls = maxRetries
             /\ Len(rWaits) = maxRetries - 1
             /\ rResult = maxRetries
             /\ rResult # NoError

\* a run of 4 always-failing attempts has thrown
C5_Witness == rOp = Always /\ rArgs = <<4>> /\ rPc = "thrown" /\ rCalls = 4

\* C6: the k-th wait (after 0-based attempt k-1) is min(200 * 4^(k-1), 2000):
\* 200, 800, then 2000 every time; no wait exceeds 2000ms.
C6_BackoffSequence ==
    \A k \in 1..Len(rWaits) :
        /\ rWaits[k] = (IF k = 1 THEN 200 ELSE IF k = 2 THEN 800 ELSE 2000)
        /\ rWaits[k] <= 2000

\* four waits have been slept: 200, 800, 2000, 2000
C6_Witness == Len(rWaits) = 4 /\ rWaits[3] = 2000 /\ rWaits[4] = 2000

------------------------------------------------------------------------------
(* Claims on the deduplication window, checked under SpecDedup *)

\* A step that leaves the clock alone is a request handled; response' tells
\* its route, its mode and what it fetched.
RunStep == now' = now /\ response'.status = 200
CommittedStep == RunStep /\ ~response'.dryRun

\* the events a step appends to events.json
Appended == SubSeq(eventsJson', Len(eventsJson) + 1, Len(eventsJson'))

WithSignature(seq, signature) == {k \in DOMAIN seq : seq[k].signature = signature}

\* the signature was recorded at most 14 days before now
SeenInWindow(signature) ==
    signature \in DOMAIN eventSignatures /\ now - eventSignatures[signature] <= 14

\* C7: a record whose signature was recorded at most 14 days ago is suppressed
\* by a committed run; one whose signature is absent or was recorded more than
\* 14 days ago is accepted once as new and its timestamp recorded again.
C7_DedupWindow ==
    [][CommittedStep =>
           \A sig \in response'.fetched :
              IF SeenInWindow(sig)
              THEN /\ WithSignature(Appended, sig) = {}
                   /\ eventSignatures'[sig] = eventSignatures[sig]
              ELSE /\ Cardinality(WithSignature(Appended, sig)) = 1
                   /\ \A k \in WithSignature(Appended, sig) : Appended[k].seenAt = now
                   /\ sig \in DOMAIN eventSignatures'
                   /\ eventSignatures'[sig] = now]_vars

\* the fact accepted on day 0 was accepted again on day 15, and re-stamped
C7_Witness ==
    /\ Len(eventsJson) = 2
    /\ eventsJson[1].signature = eventsJson[2].signature
    /\ eventsJson[1].signature # NoSignature
    /\ eventsJson[1].seenAt = 0 /\ eventsJson[2].seenAt = 15
    /\ eventSignatures[eventsJson[2].signature] = 15

SameFact(e1, e2) ==
    IF e1.signature # NoSignature /\ e2.signature # NoSignature
    THEN e1.signature = e2.signature
    ELSE e1.signature = e2.signature /\ e1.id = e2.id

\* C8: events.json never holds two events of one regulatory fact that were
\* accepted within 14 days of each other.
C8_OnePerFactPerWindow ==
    \A i, j \in 1..Len(eventsJson) :
        (i < j /\ SameFact(eventsJson[i], eventsJson[j])) =>
            eventsJson[j].seenAt - eventsJson[i].seenAt > WindowDays

\* C9: a run that finds a candidate to be a duplicate leaves the timestamp of
\* its window entry as it was, so an entry always holds the time its fact was
\* last accepted and duplicates in between do not extend the suppression.
C9_DuplicateKeepsTimestamp ==
    [][/\ RunStep =>
              \A sig \in response'.fetched :
                 SeenInWindow(sig) => eventSignatures'[sig] = eventSignatures[sig]
       /\ \A sig \in DOMAIN eventSignatures' :
            /\ WithSignature(eventsJson', sig) # {}
            /\ eventSignatures'[sig] = LET at == {eventsJson'[k].seenAt :
                                                    k \in WithSignature(eventsJson', sig)}
                                       IN  CHOOSE t \in at : \A u \in at : u <= t]_vars

\* a committed device run on day 14 skipped a duplicate of a fact accepted on
\* day 0, whose entry still reads day 0
C9_Witness ==
    /\ response.route = "/recalls/device" /\ ~response.dryRun /\ response.status = 200
    /\ response.fetched # {} /\ response.count = 0
    /\ now = 14
    /\ \A sig \in response.fetched :
          sig \in DOMAIN eventSignatures /\ eventSignatures[sig] = 0

RouteSource(route) ==
    CASE route = "/recalls/device" -> "FDA Device Recall"
      [] route = "/recalls/drug" -> "FDA Drug Recall"
      [] OTHER -> "none"

\* the signature was accepted for an event of this source at most 14 days ago
AcceptedBySource(signature, source) ==
    \E k \in WithSignature(eventsJson, signature) :
        eventsJson[k].source = source /\ now - eventsJson[k].seenAt <= 14

\* C11: a candidate is suppressed only on account of its own source: a record
\* whose signature no committed run of the same source accepted in the last 14
\* days is accepted, whatever other sources recorded.
C11_SourcesIndependent ==
    [][RunStep =>
           \A sig \in response'.fetched :
              ~AcceptedBySource(sig, RouteSource(response'.route)) =>
                  WithSignature(response'.events, sig) # {}]_vars

\* DryStep: a request handled in dry-run mode
DryStep == RunStep /\ response'.dryRun

\* C12: a dry run adds no signature to the window and changes no timestamp, so
\* every record is a duplicate after it exactly when it was one before it.
C12_DryRunKeepsWindow ==
    [][DryStep =>
           /\ eventSignatures' = eventSignatures
           /\ \A recall \in RecallPool :
                 isDuplicate(SignatureOf[recall], eventSignatures', now')
                     <=> isDuplicate(SignatureOf[recall], eventSignatures, now)]_vars

\* a dry run returned an event for a fact that the window, which holds another
\* fact, still does not know
C12_Witness ==
    /\ response.dryRun /\ response.status = 200 /\ response.count > 0
    /\ eventSignatures # EmptyMap
    /\ \E k \in DOMAIN response.events :
          /\ response.events[k].signature # NoSignature
          /\ response.events[k].signature \notin DOMAIN eventSignatures

------------------------------------------------------------------------------
(* Claims on the summarization gate, checked under SpecGate and SpecApi *)

GateCallsIn(log) == {k \in DOMAIN log : log[k].op = "tryConsume"}
GrantsIn(log) == {k \in GateCallsIn(log) : log[k].granted}
SummarizerCallsIn(log) == {k \in DOMAIN log : log[k].op = "summarizeEvent"}

\* C13: a dry run leaves the usage counter as it was, asks the gate nothing and
\* calls the summarizer for no event, whatever the events' tiers and the quota
\* left.
C13_DryRunSparesQuota ==
    [][DryStep =>
           /\ aiUsage' = aiUsage
           /\ aiLog' = <<>>
           /\ \A k \in DOMAIN response'.events :
                 response'.events[k].summary = NoSummary]_vars

\* a dry run returned an Informational event while quota was left
C13_Witness ==
    /\ response.dryRun /\ response.status = 200
    /\ \E k \in DOMAIN response.events : response.events[k].category = "Informational"
    /\ UsageToday(aiUsage, now) < DailyCeiling

\* C16: a consumption is granted exactly when the day's counter is below the
\* ceiling; each grant raises the counter by exactly 1 and a denial leaves it,
\* so the counter never exceeds the ceiling.
C16_GateCeiling ==
    [][RunStep =>
           /\ \A k \in GateCallsIn(aiLog') :
                 /\ aiLog'[k].granted <=> aiLog'[k].before < DailyCeiling
                 /\ aiLog'[k].before = UsageToday(aiUsage, now)
                        + Cardinality({j \in GrantsIn(aiLog') : j < k})
           /\ UsageToday(aiUsage', now) = UsageToday(aiUsage, now)
                                             + Cardinality(GrantsIn(aiLog'))
           /\ aiUsage'.count <= DailyCeiling]_vars

\* one request was granted a summary and then, the ceiling consumed, denied one
C16_Witness ==
    \E j, k \in GateCallsIn(aiLog) :
        /\ j < k /\ aiLog[j].granted
        /\ ~aiLog[k].granted /\ aiLog[k].before = DailyCeiling
        /\ aiUsage.count = DailyCeiling

\* the summarizer calls made on a day: the summaries of the events stored then
SummarizedOn(events, day) ==
    {k \in DOMAIN events : events[k].summary # NoSummary /\ events[k].seenAt = day}

\* C17: every call of the summarizer directly follows a granted consumption
\* for the same event, and the calls of one day never exceed the ceiling.
C17_GateBeforeSummarizer ==
    [][now' = now =>
           /\ \A k \in SummarizerCallsIn(aiLog') :
                 /\ k - 1 \in GrantsIn(aiLog')
                 /\ aiLog'[k - 1].id = aiLog'[k].id
           /\ Cardinality(SummarizedOn(eventsJson', now))
                + Cardinality(SummarizedOn(storageEvents', now)) <= DailyCeiling]_vars

RecallNumbered(n) == CHOOSE recall \in RecallPool \cup QuotaPool : recall.number = n

C20_LazyDailyReset ==
    [][/\ now' # now => aiUsage' = aiUsage
       /\ RunStep =>
             /\ \A k \in GateCallsIn(aiLog') :
                   (\A j \in GateCallsIn(aiLog') : k <= j) =>
                      /\ aiLog'[k].before = IF aiUsage.day = now THEN aiUsage.count ELSE 0
                      /\ aiUsage.day # now => aiLog'[k].granted
             /\ GateCallsIn(aiLog') = {} => aiUsage' = aiUsage
             /\ aiUsage.day = now =>
                   aiUsage'.day = now /\ aiUsage'.count >= aiUsage.count]_vars

\* the quota of day 0 was used up, and on day 1 a summary was granted again
C20_Witness ==
    /\ now > 0 /\ aiUsage.day = now /\ aiUsage.count >= 1
    /\ Cardinality(SummarizedOn(eventsJson, 0)) = DailyCeiling
    /\ Cardinality(SummarizedOn(eventsJson, now)) >= 1

------------------------------------------------------------------------------
(* Claims on dry-run mode, checked under SpecDryRun *)

\* a request handled in dry-run mode, whatever its outcome
DryRequest == now' = now /\ response'.dryRun

\* the events a dry run of the route computes from the stored state and the
\* payload it was served
ComputedEvents(route, payload) ==
    CASE route = "/recalls/device" ->
             DeviceLoop([events |-> <<>>, window |-> eventSignatures, usage |-> aiUsage,
                         log |-> <<>>], payload, 1, TRUE, now).events
      [] route = "/cpt/pfs" -> CptLoop(<<>>, cptRatesPrevious, 1, now)
      [] route = "/deadlines" ->
             [k \in DOMAIN DeadlineList |-> DeadlineEvent(DeadlinesAt(now)[k], now)]
      [] OTHER -> <<>>

------------------------------------------------------------------------------
(* Claims on interleaved requests, checked under SpecConc *)

\* C19: however the requests interleave, a consumption is granted exactly when
\* the counter is below the ceiling, the counter equals the number of grants,
\* the grants never exceed the ceiling, and the summarizer is called once per
\* grant.
C19_AtomicConsumption ==
    /\ \A k \in GateCallsIn(aiLog) : aiLog[k].granted <=> aiLog[k].before < DailyCeiling
    /\ UsageToday(aiUsage, now) = Cardinality(GrantsIn(aiLog))
    /\ Cardinality(GrantsIn(aiLog)) <= DailyCeiling
    /\ Cardinality(SummarizerCallsIn(aiLog)) = Cardinality(GrantsIn(aiLog))

\* while one request waits in summarizeEvent with the last of the quota,
\* another committed request asked the gate and was denied
C19_Witness ==
    \E p, q \in Requests :
        /\ runs[p].pc = "summarizing"
        /\ runs[q].pc \in {"reading", "writing", "done"} /\ ~runs[q].dryRun
        /\ \E k \in GateCallsIn(aiLog), j \in DOMAIN runs[q].events :
              /\ ~aiLog[k].granted
              /\ runs[q].events[j].id = aiLog[k].id
        /\ UsageToday(aiUsage, now) = DailyCeiling

------------------------------------------------------------------------------
(* Claims on the status tracker, checked under SpecStatus *)

\* the steps of a request of routes.ts: its start, its end in the catch block
\* and its end after the loop
RunStarts == pipeline.pc = "idle" /\ pipeline'.pc = "fetch"
RunFails == pipeline.pc # "idle" /\ pipeline'.pc = "idle" /\ response'.status = 500
RunSucceeds == pipeline.pc # "idle" /\ pipeline'.pc = "idle" /\ response'.status = 200

\* C21: each failed run of a source sets lastError to the failure time and
\* increases the errorCount24h of that source by exactly 1 over the count the
\* run started from.
C21_FailureCountsOnce ==
    [][RunFails =>
          LET after == StatusOf(systemStatus', pipeline.source)
          IN  /\ after.lastError = now
              /\ after.errorCount24h = pipeline.before.status.errorCount24h + 1]_vars

\* C22: starting a run leaves lastSuccess, lastError and errorCount24h of the
\* source as they were.
C22_StartKeepsStatus ==
    [][RunStarts =>
          StatusOf(systemStatus', pipeline'.source)
              = StatusOf(systemStatus, pipeline'.source)]_vars

\* C23: after a failed run the source still reports the lastSuccess it had
\* before the run, and the events stored before the run are still stored,
\* unchanged.
C23_FailureKeepsHistory ==
    [][RunFails =>
          /\ StatusOf(systemStatus', pipeline.source).lastSuccess
                 = pipeline.before.status.lastSuccess
          /\ Len(storageEvents') >= Len(pipeline.before.events)
          /\ SubSeq(storageEvents', 1, Len(pipeline.before.events))
                 = pipeline.before.events]_vars

\* C24: a successful run sets lastSuccess to the time it completes and leaves
\* errorCount24h as it was before the run.
C24_SuccessKeepsCount ==
    [][RunSucceeds =>
          LET after == StatusOf(systemStatus', pipeline.source)
          IN  /\ after.lastSuccess = now
              /\ after.errorCount24h = pipeline.before.status.errorCount24h
              /\ after.errorCount24h = StatusOf(systemStatus, pipeline.source).errorCount24h]_vars

\* a run that failed has completed successfully on a later instant, and the
\* count it had is still there
C24_Witness ==
    /\ pipeline.pc = "idle" /\ pipeline.source = "recalls"
    /\ response.route = "recalls" /\ response.status = 200
    /\ StatusOf(systemStatus, "recalls").errorCount24h = 1
    /\ StatusOf(systemStatus, "recalls").lastSuccess = now
    /\ now > 0

\* C25: a source whose most recent failure is more than 24 hours old is
\* reported with errorCount24h = 0.
C25_RollingWindow ==
    response = StatusReport(systemStatus) =>
        \A s \in DOMAIN systemStatus :
            (systemStatus[s].lastError # NullTime /\ now - systemStatus[s].lastError > 1)
                => response.errorCounts24h[systemStatus[s].source] = 0

------------------------------------------------------------------------------
(* Claims on the failures of a run, checked under SpecStatus *)

What(failures) == {f.what : f \in failures}

\* C26: when a run fails the caller gets status 500 with no event list, the
\* entry of the source records the failure and no success of this run, and the
\* events the run had stored before it failed are still stored.
C26_FailedRunReply ==
    [][RunFails =>
          LET after == StatusOf(systemStatus', pipeline.source)
              kept == pipeline.before.events \o pipeline.processed
          IN  /\ response'.status = 500
              /\ response'.events = <<>> /\ response'.count = 0
              /\ after.lastError = now /\ after.errorCount24h >= 1
              /\ after.lastSuccess \in {NullTime, pipeline.before.status.lastSuccess}
              /\ Len(storageEvents') >= Len(kept)
              /\ SubSeq(storageEvents', 1, Len(kept)) = kept]_vars

\* a run has failed at its second record after it had stored the first
C26_Witness ==
    /\ pipeline.pc = "idle"
    /\ Failure(2, "storage") \in pipeline.failed
    /\ Len(pipeline.processed) = 1
    /\ response.status = 500 /\ response.events = <<>>
    /\ \E k \in DOMAIN storageEvents : storageEvents[k] = pipeline.processed[1]
    /\ StatusOf(systemStatus, pipeline.source).lastError = now

\* C27: a run in which only AI collaborators failed (normalizer, pattern
\* detector, summarizer) ends with success recorded and the event list.
C27_CollaboratorsNotFatal ==
    [][(/\ pipeline.pc # "idle" /\ pipeline'.pc = "idle"
        /\ What(pipeline'.failed) # {}
        /\ What(pipeline'.failed) \subseteq {"normalizer", "detector", "summarizer"})
          => /\ response'.status = 200
             /\ response'.count = Len(pipeline'.records)
             /\ StatusOf(systemStatus', pipeline.source).lastSuccess = now]_vars

------------------------------------------------------------------------------
(* Claims on the source adjustments, checked under SpecAdjust *)

StoredFrom(name) == {k \in DOMAIN storageEvents : storageEvents[k].source = name}

\* C29: an event of /api/fedreg has the score max(generic - 15, 0), which is
\* never negative, and the category of that adjusted score: a generic score of
\* 90 gives 75 and Informational.
C29_FedregAdjustment ==
    \A k \in StoredFrom("Federal Register") :
        LET e == storageEvents[k]
        IN  /\ e.score = (IF e.generic - 15 > 0 THEN e.generic - 15 ELSE 0)
            /\ e.score >= 0
            /\ e.category = categorizeByScore(e.score)
            /\ e.generic = 90 => (e.score = 75 /\ e.category = "Informational")

\* one record scoring 90 was stored as 75 and Informational, and one scoring
\* less than 15 was stored with score 0
C29_Witness ==
    \E i, j \in StoredFrom("Federal Register") :
        /\ storageEvents[i].generic = 90 /\ storageEvents[i].score = 75
        /\ storageEvents[i].category = "Informational"
        /\ storageEvents[j].generic \in 1..14 /\ storageEvents[j].score = 0

\* C30: an event of /api/maude has the score min(generic, 70) whatever the
\* pattern detector answered, is neither Urgent nor Informational, has no
\* summary, and no call of the summarizer is made for it.
C30_MaudeCap ==
    /\ \A k \in StoredFrom("MAUDE") :
          LET e == storageEvents[k]
          IN  /\ e.score = (IF e.generic < 70 THEN e.generic ELSE 70)
              /\ e.category \notin {"Urgent", "Informational"}
              /\ e.summary.null
    /\ \A k \in DOMAIN aiLog :
          aiLog[k].op = "summarizeEvent" => aiLog[k].id[1] # "maude"

\* a signal whose flags score 90 was stored with score 70 as Digest, next to
\* one below the cap
C30_Witness ==
    \E i, j \in StoredFrom("MAUDE") :
        /\ storageEvents[i].generic >= 85 /\ storageEvents[i].score = 70
        /\ storageEvents[i].category = "Digest" /\ storageEvents[i].summary.null
        /\ storageEvents[j].generic < 70 /\ storageEvents[j].score = storageEvents[j].generic

------------------------------------------------------------------------------
(* Claim on the SMS route, checked under SpecSms *)

\* C31: the SMS sender is called only for a stored event whose category is
\* Urgent and with a non-empty phone list; a request with no alert id or no
\* phone number is answered 400, one with an unknown id 404, one for an alert
\* that is not Urgent 400, each without a call of the sender.
C31_SmsOnlyUrgent ==
    [][/\ smsLog' # smsLog =>
            LET call == smsLog'[Len(smsLog')]
            IN  /\ smsLog' = Append(smsLog, call)
                /\ call.alert \in 1..Len(storageEvents)
                /\ storageEvents[call.alert].category = "Urgent"
                /\ call.phones # <<>>
       /\ (response' # response /\ response'.route = "/api/send-sms") =>
            LET request == response'.request
                missing == \/ request.alertId = 0
                           \/ ~request.phoneNumbers.defined
                           \/ request.phoneNumbers.list = <<>>
                known == request.alertId \in 1..Len(storageEvents)
            IN  /\ missing => (response'.status = 400 /\ smsLog' = smsLog)
                /\ (~missing /\ ~known) => (response'.status = 404 /\ smsLog' = smsLog)
                /\ (~missing /\ known /\ storageEvents[request.alertId].category # "Urgent")
                      => (response'.status = 400 /\ smsLog' = smsLog)
                /\ (~missing /\ known /\ storageEvents[request.alertId].category = "Urgent")
                      => (response'.status \in {200, 500} /\ smsLog' # smsLog)]_vars

\* with an Urgent and a Digest event stored, the sender has been called for the
\* Urgent one and the last request, for the Digest one, got 400
C31_Witness ==
    /\ Len(smsLog) = 1
    /\ storageEvents[smsLog[1].alert].category = "Urgent"
    /\ response.route = "/api/send-sms" /\ response.status = 400
    /\ response.request.alertId \in 1..Len(storageEvents)
    /\ response.request.phoneNumbers.list # <<>>
    /\ storageEvents[response.request.alertId].category = "Digest"

------------------------------------------------------------------------------
(* Claims on interleaved committed requests, checked under SpecConc *)

AcceptedSignatures(run) == {run.events[k].signature : k \in DOMAIN run.events}

\* C32: of two committed requests of the device source in flight together, at
\* most one accepts a candidate whose signature was absent from the window.
C32_WindowSerialized ==
    \A p, q \in Requests :
        (p # q /\ ~runs[p].dryRun /\ ~runs[q].dryRun)
            => AcceptedSignatures(runs[p]) \cap AcceptedSignatures(runs[q]) = {}

\* C37: once two committed requests have both completed, every event either
\* of them appended is in events.json.
C37_NoLostAppend ==
    (\A p \in Requests : runs[p].pc = "done")
        => \A p \in Requests :
              ~runs[p].dryRun
                  => \A k \in DOMAIN runs[p].events :
                        \E j \in DOMAIN eventsJson : eventsJson[j] = runs[p].events[k]

------------------------------------------------------------------------------
(* Claim on batchSummarize, checked under SpecBatch *)

\* C33: the calls of the summarizer within one batch are made in input order,
\* each after the one before has settled and at least one second later, and
\* the result holds one summary per input event, in input order.
C33_BatchSequential ==
    /\ Len(batch.calls) <= Len(batch.events)
    /\ \A i \in DOMAIN batch.calls :
          /\ batch.calls[i].id = batch.events[i].id
          /\ i < Len(batch.calls) =>
                /\ batch.calls[i].ended
                /\ batch.calls[i + 1].start >= batch.calls[i].end + 1000
    /\ batch.pc = "done" =>
          /\ Len(batch.calls) = Len(batch.events)
          /\ Len(batch.summaries) = Len(batch.events)
          /\ \A i \in DOMAIN batch.events :
                batch.summaries[i].eventId = batch.events[i].id

\* a batch of two events has returned, the first call having taken its time
\* and failed, the second made exactly one second after the first settled
C33_Witness ==
    /\ batch.pc = "done" /\ Len(batch.events) = 2
    /\ batch.calls[1].end > batch.calls[1].start
    /\ batch.calls[2].start = batch.calls[1].end + 1000
    /\ batch.summaries[1].summary = FallbackSummary(batch.events[1].title)
    /\ batch.summaries[2].summary = SummaryContent

------------------------------------------------------------------------------
(* Claim on the status table, checked under SpecTable *)

\* C34: the status table holds at most one entry per source, also when runs
\* of one source are in flight together; an update for a source without an
\* entry creates it, an update for a source with an entry overwrites the fields
\* it passes and no other, and no entry is ever removed.
C34_OneEntryPerSource ==
    [][/\ \A i, j \in DOMAIN systemStatus' :
             systemStatus'[i].source = systemStatus'[j].source => i = j
       /\ Len(systemStatus') >= Len(systemStatus)
       /\ \A r \in Requests :
             inFlight'[r] # inFlight[r] =>
                LET source == inFlight'[r].source
                    passed == inFlight'[r].passed
                    had == {i \in DOMAIN systemStatus : systemStatus[i].source = source}
                    has == {i \in DOMAIN systemStatus' : systemStatus'[i].source = source}
                IN  /\ had = {} <=> Len(systemStatus') = Len(systemStatus) + 1
                    /\ had # {} => has = had
                    /\ \A i \in has, f \in DOMAIN passed : systemStatus'[i][f] = passed[f]
                    /\ \A i \in had :
                          \A f \in DOMAIN systemStatus[i] \ DOMAIN passed :
                              systemStatus'[i][f] = systemStatus[i][f]
                    /\ \A i \in DOMAIN systemStatus \ had :
                          systemStatus'[i] = systemStatus[i]]_vars

\* a run of /api/recalls is in flight since its start cleared lastSuccess, and
\* a second run of /api/recalls has succeeded in the meantime: one entry, with
\* the second run's lastSuccess and the error count of an earlier failure
C34_Witness ==
    /\ inFlight[1] = [pc |-> "running", source |-> "recalls", passed |-> StatusOnStart]
    /\ inFlight[2] = [pc |-> "idle", source |-> "recalls", passed |-> StatusOnSuccess(MaxDay)]
    /\ Len(systemStatus) = 2
    /\ \E i \in DOMAIN systemStatus :
          /\ systemStatus[i].source = "recalls"
          /\ systemStatus[i].lastSuccess = MaxDay
          /\ systemStatus[i].errorCount24h = 1

------------------------------------------------------------------------------
(* Claims on the category and the summary of the events of the pipelines *)

\* C38: a run of a payment-schedule handler returns a change event only
\* for a code whose rate in the snapshot exists and differs from the current
\* one, so none from an empty snapshot and none from the current rates; a run
\* that succeeds and is not a dry run leaves the current rates as the snapshot,
\* and a dry run leaves the snapshot as it was.  Checked under SpecPfs.
C38_RateChangeEvents ==
    [][/\ response'.route = "/cpt/pfs" =>
             /\ \A e \in Range(response'.events) :
                   /\ MapHas(cptRatesPrevious, e.id[2])
                   /\ cptRatesPrevious[e.id[2]] # currentRates[e.id[2]]
             /\ cptRatesPrevious \in {EmptyMap, currentRates} => response'.count = 0
             /\ cptRatesPrevious' = IF response'.dryRun THEN cptRatesPrevious
                                    ELSE currentRates
       /\ (response'.route = "/api/cms-pfs" /\ response'.status = 200) =>
             /\ \A e \in Range(response'.events) :
                   /\ MapHas(cmsJson, e.cptCode)
                   /\ cmsJson[e.cptCode] = e.delta.old
                   /\ e.delta.old # CmsRates[e.cptCode]
             /\ cmsJson \in {EmptyMap, CmsRates} => response'.count = 0
             /\ cmsJson' = CmsRates]_vars

\* a dry run of /cpt/pfs has returned changes and the snapshot still holds the
\* older rates, after a run of /api/cms-pfs stored a change and the current
\* rates
C38_Witness ==
    /\ response.route = "/cpt/pfs" /\ response.dryRun /\ response.count > 0
    /\ cptRatesPrevious \notin {EmptyMap, currentRates}
    /\ Len(storageEvents) = 2 /\ cmsJson = CmsRates
    /\ \A e \in Range(storageEvents) : "cptCode" \in DOMAIN e

\* C35: every event that a pipeline stores or returns with a score carries the
\* category that categorizeByScore gives that score.  Checked under SpecDryRun.
C35_CategoryFromScore ==
    \A e \in Range(eventsJson) \cup Range(response.events) \cup Range(storageEvents) :
        "score" \in DOMAIN e => e.category = categorizeByScore(e.score)

Summarized == {"Urgent", "Informational"}

\* C36: a stored event has a summary only if its category is Urgent or
\* Informational, and the summarizer is called for no event of another
\* category.  Checked under SpecSummary.
C36_SummaryOnlyWhenDue ==
    /\ \A e \in Range(eventsJson) \cup Range(storageEvents) :
          e.summary # NoSummary => e.category \in Summarized
    /\ \A k \in DOMAIN aiLog :
          aiLog[k].op = "summarizeEvent" =>
              \E e \in Range(response.events) :
                  e.id = aiLog[k].id /\ e.category \in Summarized

\* both stores hold a Digest event without a summary and an event with one
C36_Witness ==
    /\ \E e \in Range(eventsJson) : e.category = "Digest" /\ e.summary = NoSummary
    /\ \E e \in Range(eventsJson) : e.summary # NoSummary
    /\ \E e \in Range(storageEvents) : e.category = "Digest" /\ e.summary = NoSummary
    /\ \E e \in Range(storageEvents) : e.category = "Urgent" /\ e.summary # NoSummary

====
